---- MODULE Spec2Model ----
(***************************************************************************)
(* A2A connector: the configuration-driven transformer                     *)
(* (internal/proxy/config_transformer.go), the HTTP transformer            *)
(* (Transformer.TransformRequest / TransformResponse) and the proxy        *)
(* (internal/proxy/proxy.go).                                              *)
(*                                                                         *)
(* Text is modelled as a sequence of symbols.  A symbol is a word          *)
(* ("get", "Get", "status", "12345"), a punctuation character (".", ":",   *)
(* " ", "{", "}", "/") or, inside a regular expression, a pattern element  *)
(* ("(", ")", "$", "\\w+", "\\W+").  Go maps are objects of a heap and a   *)
(* map value is a reference, so that two fields holding the same map       *)
(* share it, as they do in the program.                                    *)
(***************************************************************************)
EXTENDS Integers, Sequences, FiniteSets, TLC

(***************************************************************************)
(* Strings                                                                 *)
(***************************************************************************)

\* The symbols that \w matches (letters, digits, words).
WordSyms ==
    {"get", "Get", "customer", "Customer", "order", "id", "ID", "a", "b",
     "x1", "X1", "12345", "7", "task-123", "task-9"}

IsWord(c) == c \in WordSyms

\* unicode.ToLower on one symbol.  Lower-casing a regular expression source
\* also lower-cases its escapes: \W (non-word) becomes \w (word).
ToLowerSym(c) ==
    CASE c = "Get" -> "get"
      [] c = "Customer" -> "customer"
      [] c = "ID" -> "id"
      [] c = "X1" -> "x1"
      [] c = "\\W+" -> "\\w+"
      [] OTHER -> c

\* strings.ToLower
ToLower(s) == [i \in 1..Len(s) |-> ToLowerSym(s[i])]

\* s[i..j-1] (Go's s[i:j] with 1-based positions)
Slice(s, i, j) == SubSeq(s, i, j - 1)

HasPrefixAt(s, i, p) ==
    /\ i + Len(p) - 1 <= Len(s)
    /\ \A k \in 1..Len(p) : s[i + k - 1] = p[k]

\* strings.ReplaceAll(s, old, new): the non-overlapping occurrences of old,
\* left to right.  (old is never empty where the program calls it.)
RECURSIVE ReplaceFrom(_, _, _, _)
ReplaceFrom(s, i, old, new) ==
    IF i > Len(s) THEN <<>>
    ELSE IF Len(old) > 0 /\ HasPrefixAt(s, i, old)
         THEN new \o ReplaceFrom(s, i + Len(old), old, new)
         ELSE <<s[i]>> \o ReplaceFrom(s, i + 1, old, new)

ReplaceAll(s, old, new) == ReplaceFrom(s, 1, old, new)

\* strings.Split(s, "."): the segments between the dots; always at least one.
RECURSIVE SplitFrom(_, _, _)
SplitFrom(s, i, cur) ==
    IF i > Len(s) THEN <<cur>>
    ELSE IF s[i] = "." THEN <<cur>> \o SplitFrom(s, i + 1, <<>>)
         ELSE SplitFrom(s, i + 1, Append(cur, s[i]))

Split(s) == SplitFrom(s, 1, <<>>)

(***************************************************************************)
(* Regular expressions (package regexp), for patterns built from literal   *)
(* symbols, \w+, \W+, one level of capture groups and a final $.           *)
(***************************************************************************)

NoMatch == [ok |-> FALSE, end |-> 0, caps |-> <<>>]

\* regexp.Compile succeeds iff the groups are balanced and not nested.
RECURSIVE Balanced(_, _, _)
Balanced(p, k, open) ==
    IF k > Len(p) THEN ~open
    ELSE CASE p[k] = "(" -> ~open /\ Balanced(p, k + 1, TRUE)
           [] p[k] = ")" -> open /\ Balanced(p, k + 1, FALSE)
           [] OTHER -> Balanced(p, k + 1, open)

CompileOK(p) == Balanced(p, 1, FALSE)

\* The length of the longest run of symbols at t[j..] that are (word = TRUE)
\* word symbols or (word = FALSE) non-word symbols.
RECURSIVE Run(_, _, _)
Run(t, j, word) ==
    IF j <= Len(t) /\ (IsWord(t[j]) = word) THEN 1 + Run(t, j + 1, word) ELSE 0

\* Match p[k..] against t from position j; open is where the open group
\* started (0: none), caps the groups closed so far.  A repetition is greedy:
\* the longest run is tried first, then shorter ones (backtracking).
RECURSIVE MatchHere(_, _, _, _, _, _), MatchRep(_, _, _, _, _, _, _)
MatchHere(p, k, t, j, open, caps) ==
    IF k > Len(p) THEN [ok |-> TRUE, end |-> j, caps |-> caps]
    ELSE CASE p[k] = "(" -> MatchHere(p, k + 1, t, j, j, caps)
           [] p[k] = ")" ->
                MatchHere(p, k + 1, t, j, 0, Append(caps, Slice(t, open, j)))
           [] p[k] = "$" ->
                IF j = Len(t) + 1 THEN MatchHere(p, k + 1, t, j, open, caps)
                ELSE NoMatch
           [] p[k] = "\\w+" -> MatchRep(p, k, t, j, open, caps, Run(t, j, TRUE))
           [] p[k] = "\\W+" -> MatchRep(p, k, t, j, open, caps, Run(t, j, FALSE))
           [] OTHER ->
                IF j <= Len(t) /\ t[j] = p[k]
                THEN MatchHere(p, k + 1, t, j + 1, open, caps)
                ELSE NoMatch

MatchRep(p, k, t, j, open, caps, n) ==
    IF n < 1 THEN NoMatch
    ELSE LET m == MatchHere(p, k + 1, t, j + n, open, caps)
         IN  IF m.ok THEN m ELSE MatchRep(p, k, t, j, open, caps, n - 1)

\* (*Regexp).FindStringSubmatch: the leftmost match as <<whole, group 1, ...>>,
\* or <<>> (nil) when there is none.
RECURSIVE FindFrom(_, _, _)
FindFrom(p, t, i) ==
    IF i > Len(t) + 1 THEN <<>>
    ELSE LET m == MatchHere(p, 1, t, i, 0, <<>>)
         IN  IF m.ok THEN <<Slice(t, i, m.end)>> \o m.caps
             ELSE FindFrom(p, t, i + 1)

FindStringSubmatch(p, t) == FindFrom(p, t, 1)

\* (*Regexp).MatchString
MatchString(p, t) == FindStringSubmatch(p, t) # <<>>

(***************************************************************************)
(* Values (interface{}) and the heap of maps                               *)
(***************************************************************************)

\* A value is a pair <<type, payload>>; nil has no payload.
Nil == <<"nil">>
Str(s) == <<"str", s>>
Num(n) == <<"num", n>>
Bool(b) == <<"bool", b>>
\* a map[string]interface{}: a reference to heap object i
Ref(i) == <<"map", i>>
\* a map[string]string: a reference to heap object i, whose entries are strings
SRef(i) == <<"smap", i>>
\* a slice
Arr(s) == <<"arr", s>>
\* a JSON object as a tree (the text of a body, parsed)
Obj(f) == <<"obj", f>>

\* The dynamic type of a value (what a type assertion tests) and its payload.
TypeOf(value) == value[1]
ValOf(value) == value[2]

\* make(map[string]interface{})
EmptyMap == <<>>

\* current[part]: nil for a missing key
Lookup(m, k) == IF k \in DOMAIN m THEN m[k] ELSE Nil

\* current[part] = value
Put(h, id, k, value) == [h EXCEPT ![id] = (k :> value) @@ @]

\* The conversion of a map[string]string to a map[string]interface{}.
Converted(m) == [k \in DOMAIN m |-> Str(m[k])]

(***************************************************************************)
(* Path Accessor                                                           *)
(***************************************************************************)

\* getValueByPath's loop; current is a map's content (for a map[string]string,
\* the converted copy, which is no object of the heap).
RECURSIVE getValueLoop(_, _, _, _)
getValueLoop(h, current, parts, i) ==
    IF i = Len(parts) THEN Lookup(current, parts[i])
    ELSE LET next == Lookup(current, parts[i])
         IN  CASE TypeOf(next) = "map" -> getValueLoop(h, h[ValOf(next)], parts, i + 1)
               [] TypeOf(next) = "smap" ->
                    getValueLoop(h, Converted(h[ValOf(next)]), parts, i + 1)
               [] OTHER -> Nil

\* (a variant that goes through map[string]interface{} only)
RECURSIVE getValuePlainLoop(_, _, _, _)
getValuePlainLoop(h, current, parts, i) ==
    IF i = Len(parts) THEN Lookup(current, parts[i])
    ELSE LET next == Lookup(current, parts[i])
         IN  IF TypeOf(next) = "map"
             THEN getValuePlainLoop(h, h[ValOf(next)], parts, i + 1)
             ELSE Nil

getValueByPathPlain(h, data, path) == getValuePlainLoop(h, h[data], Split(path), 1)

getValueByPath(h, data, path) == getValueLoop(h, h[data], Split(path), 1)

\* setValue's loop; current is the heap object being written.  Returns the heap.
RECURSIVE setValueLoop(_, _, _, _, _)
setValueLoop(h, current, parts, i, value) ==
    IF i = Len(parts) THEN Put(h, current, parts[i], value)
    ELSE LET part == parts[i]
             new == Len(h) + 1
             h1 == IF part \notin DOMAIN h[current]
                   THEN Put(Append(h, EmptyMap), current, part, Ref(new))
                   ELSE h
             next == h1[current][part]
             new1 == Len(h1) + 1
         IN  CASE TypeOf(next) = "map" -> setValueLoop(h1, ValOf(next), parts, i + 1, value)
               [] TypeOf(next) = "smap" ->
                    setValueLoop(
                        Put(Append(h1, Converted(h1[ValOf(next)])), current, part, Ref(new1)),
                        new1, parts, i + 1, value)
               [] OTHER ->
                    setValueLoop(
                        Put(Append(h1, EmptyMap), current, part, Ref(new1)),
                        new1, parts, i + 1, value)

\* (a variant that gives up at a segment holding a non-container value
\* instead of replacing it by a fresh container)
RECURSIVE setValueStrictLoop(_, _, _, _, _)
setValueStrictLoop(h, current, parts, i, value) ==
    IF i = Len(parts) THEN Put(h, current, parts[i], value)
    ELSE LET part == parts[i]
             new == Len(h) + 1
             h1 == IF part \notin DOMAIN h[current]
                   THEN Put(Append(h, EmptyMap), current, part, Ref(new))
                   ELSE h
             next == h1[current][part]
         IN  IF TypeOf(next) = "map"
             THEN setValueStrictLoop(h1, ValOf(next), parts, i + 1, value)
             ELSE h1

setValueStrict(h, data, path, value) ==
    setValueStrictLoop(h, data, Split(path), 1, value)

setValue(h, data, path, value) == setValueLoop(h, data, Split(path), 1, value)

(***************************************************************************)
(* encoding/json, between a body (a tree) and the heap                     *)
(***************************************************************************)

\* json.Unmarshal of a tree: every object becomes a fresh map.
\* Returns [h |-> the heap, v |-> the value].
RECURSIVE Load(_, _), LoadKeys(_, _, _, _), LoadElems(_, _, _, _)
Load(h, tree) ==
    CASE TypeOf(tree) = "obj" ->
           LET id == Len(h) + 1
           IN  [h |-> LoadKeys(Append(h, EmptyMap), id, ValOf(tree), DOMAIN ValOf(tree)),
                v |-> Ref(id)]
      [] TypeOf(tree) = "arr" -> LoadElems(h, ValOf(tree), 1, <<>>)
      [] OTHER -> [h |-> h, v |-> tree]

LoadKeys(h, id, f, ks) ==
    IF ks = {} THEN h
    ELSE LET k == CHOOSE x \in ks : TRUE
             r == Load(h, f[k])
         IN  LoadKeys(Put(r.h, id, k, r.v), id, f, ks \ {k})

LoadElems(h, s, i, acc) ==
    IF i > Len(s) THEN [h |-> h, v |-> Arr(acc)]
    ELSE LET r == Load(h, s[i])
         IN  LoadElems(r.h, s, i + 1, Append(acc, r.v))

\* The tree json.Marshal writes for a value; a map met again below itself
\* is a cycle, which the encoder reports as an error.
Cycle == <<"cycle">>

RECURSIVE Tree(_, _, _)
Tree(h, value, seen) ==
    CASE TypeOf(value) = "map" ->
           IF ValOf(value) \in seen THEN Cycle
           ELSE Obj([k \in DOMAIN h[ValOf(value)] |->
                        Tree(h, h[ValOf(value)][k], seen \cup {ValOf(value)})])
      [] TypeOf(value) = "smap" -> Obj(Converted(h[ValOf(value)]))
      [] TypeOf(value) = "arr" ->
           Arr([i \in 1..Len(ValOf(value)) |-> Tree(h, ValOf(value)[i], seen)])
      [] OTHER -> value

RECURSIVE HasCycle(_)
HasCycle(tree) ==
    CASE TypeOf(tree) = "cycle" -> TRUE
      [] TypeOf(tree) = "obj" -> \E k \in DOMAIN ValOf(tree) : HasCycle(ValOf(tree)[k])
      [] TypeOf(tree) = "arr" -> \E i \in 1..Len(ValOf(tree)) : HasCycle(ValOf(tree)[i])
      [] OTHER -> FALSE

(***************************************************************************)
(* Configuration (internal/config/types.go)                                *)
(***************************************************************************)

\* A compiled *regexp.Regexp or *template.Template field: nil until Compile.
NilPtr == <<"nil">>
Re(p) == <<"re", p>>
Tmpl(segs) == <<"tmpl", segs>>
Prog(compiled) == compiled[2]

\* A key or a one-word string.
K(w) == <<w>>

\* text/template: the source is literal symbols and actions "{{" .a.b "}}".
\* Parse gives the segments <<"lit", symbol>> and <<"field", <<a, b>>>>, and
\* fails on an action that is not closed or is not a field chain.
RECURSIVE ActionEnd(_, _)
ActionEnd(s, i) ==
    IF i > Len(s) THEN 0 ELSE IF s[i] = "}}" THEN i ELSE ActionEnd(s, i + 1)

RECURSIVE ParseFrom(_, _, _)
ParseFrom(s, i, segs) ==
    IF i > Len(s) THEN [ok |-> TRUE, segs |-> segs]
    ELSE IF s[i] = "{{"
         THEN LET e == ActionEnd(s, i + 1)
              IN  IF e = 0 \/ e < i + 3 \/ s[i + 1] # "."
                  THEN [ok |-> FALSE, segs |-> <<>>]
                  ELSE ParseFrom(s, e + 1,
                           Append(segs, <<"field", Split(Slice(s, i + 2, e))>>))
         ELSE ParseFrom(s, i + 1, Append(segs, <<"lit", s[i]>>))

ParseTemplate(s) == ParseFrom(s, 1, <<>>)

\* fmt's %v of a number or a boolean
FormatNum(n) == <<ToString(n)>>
FormatBool(b) == IF b THEN <<"true">> ELSE <<"false">>

\* What a template action prints for the value it evaluated.
PrintValue(value) ==
    CASE TypeOf(value) = "str" -> ValOf(value)
      [] TypeOf(value) = "num" -> FormatNum(ValOf(value))
      [] TypeOf(value) = "bool" -> FormatBool(ValOf(value))
      [] TypeOf(value) \in {"nil", "invalid"} -> <<"<no value>">>
      [] TypeOf(value) = "arr" -> <<"[", "]">>
      [] OTHER -> <<"map[", "]">>

\* What a map without the key gives a field action (missingkey=default).
Invalid == <<"invalid">>

\* The evaluation of a field chain on a map.  A key the map does not have gives
\* the invalid value, and so does any field of the invalid value; a field of
\* a null entry or of anything else that is no map is an execution error.
RECURSIVE EvalChain(_, _, _, _)
EvalChain(h, recv, chain, i) ==
    IF i > Len(chain) THEN [ok |-> TRUE, value |-> recv]
    ELSE IF TypeOf(recv) = "invalid" THEN [ok |-> TRUE, value |-> Invalid]
    ELSE IF TypeOf(recv) = "map"
         THEN EvalChain(h, IF chain[i] \in DOMAIN h[ValOf(recv)]
                           THEN h[ValOf(recv)][chain[i]] ELSE Invalid,
                        chain, i + 1)
         ELSE [ok |-> FALSE, value |-> Nil]

\* (*Template).Execute(&buf, data): [ok, out]
RECURSIVE ExecuteFrom(_, _, _, _, _)
ExecuteFrom(h, segs, data, i, buf) ==
    IF i > Len(segs) THEN [ok |-> TRUE, out |-> buf]
    ELSE IF segs[i][1] = "lit"
         THEN ExecuteFrom(h, segs, data, i + 1, Append(buf, segs[i][2]))
         ELSE LET r == EvalChain(h, data, segs[i][2], 1)
              IN  IF r.ok
                  THEN ExecuteFrom(h, segs, data, i + 1, buf \o PrintValue(r.value))
                  ELSE [ok |-> FALSE, out |-> buf]

Execute(h, tmpl, data) == ExecuteFrom(h, Prog(tmpl), data, 1, <<>>)

\* The compile pass over one parameter mapping, one mapping and one rule.
CompileParam(pm) == [pm EXCEPT !.compiled = Re(pm.Pattern)]

CompileMapping(m) ==
    [m EXCEPT
       !.compiledPattern = Re(ToLower(m.IntentPattern)),
       !.ParameterMappings =
           [j \in 1..Len(m.ParameterMappings) |-> CompileParam(m.ParameterMappings[j])],
       !.ResponseTransform.compiled =
           IF m.ResponseTransform.Template # <<>>
           THEN Tmpl(ParseTemplate(m.ResponseTransform.Template).segs)
           ELSE NilPtr]

CompileRule(r) ==
    [r EXCEPT !.compiled = IF r.Regex # <<>> THEN Re(r.Regex) ELSE NilPtr]

\* Whether every pattern and template of the configuration compiles.
CompileErr(c) ==
    \/ \E i \in 1..Len(c.Mappings) :
          \/ ~CompileOK(ToLower(c.Mappings[i].IntentPattern))
          \/ \E j \in 1..Len(c.Mappings[i].ParameterMappings) :
                ~CompileOK(c.Mappings[i].ParameterMappings[j].Pattern)
          \/ /\ c.Mappings[i].ResponseTransform.Template # <<>>
             /\ ~ParseTemplate(c.Mappings[i].ResponseTransform.Template).ok
    \/ \E i \in 1..Len(c.Transforms.A2AToLegacy) :
          /\ c.Transforms.A2AToLegacy[i].Regex # <<>>
          /\ ~CompileOK(c.Transforms.A2AToLegacy[i].Regex)
    \/ \E i \in 1..Len(c.Transforms.LegacyToA2A) :
          /\ c.Transforms.LegacyToA2A[i].Regex # <<>>
          /\ ~CompileOK(c.Transforms.LegacyToA2A[i].Regex)

\* (*ConnectorConfig).Compile on a configuration all of whose patterns and
\* templates compile: the configuration with its compiled fields set.
Compile(c) ==
    [c EXCEPT
       !.Mappings = [i \in 1..Len(c.Mappings) |-> CompileMapping(c.Mappings[i])],
       !.Transforms.A2AToLegacy =
           [i \in 1..Len(c.Transforms.A2AToLegacy) |->
               CompileRule(c.Transforms.A2AToLegacy[i])],
       !.Transforms.LegacyToA2A =
           [i \in 1..Len(c.Transforms.LegacyToA2A) |->
               CompileRule(c.Transforms.LegacyToA2A[i])]]

\* The declarations, before Compile.
ParameterMapping(source, pattern, target, default) ==
    [Source |-> source, Pattern |-> pattern, Target |-> target,
     Default |-> default, compiled |-> NilPtr]

MappingConfig(intentPattern, endpoint, method, parameterMappings, template) ==
    [IntentPattern |-> intentPattern, Endpoint |-> endpoint, Method |-> method,
     ParameterMappings |-> parameterMappings,
     ResponseTransform |-> [Template |-> template, compiled |-> NilPtr],
     compiledPattern |-> NilPtr]

TransformRule(source, target, regex, template) ==
    [Source |-> source, Target |-> target, Regex |-> regex,
     Template |-> template, compiled |-> NilPtr]

AdapterConfig(type, baseURL) == [Type |-> type, BaseURL |-> baseURL]

\* A configuration for a REST adapter.
ConnectorConfig(mappings, a2aToLegacy, legacyToA2A) ==
    [Adapter |-> AdapterConfig(K("rest"), K("http://legacy")),
     Mappings |-> mappings,
     Transforms |-> [A2AToLegacy |-> a2aToLegacy, LegacyToA2A |-> legacyToA2A]]

(***************************************************************************)
(* Loading: LoadFromFile, Compile as it runs, ValidateConfig               *)
(***************************************************************************)

\* The least index of S, a subset of 1..n, or n + 1 when S is empty.
FirstOf(S, n) == IF S = {} THEN n + 1 ELSE CHOOSE i \in S : \A j \in S : i <= j

\* Compile's loop body for mapping m, which assigns each compiled field as
\* soon as it has it and returns at the first error: [err, m].
compileMapping(m) ==
    LET pms == m.ParameterMappings
        badPattern == ~CompileOK(ToLower(m.IntentPattern))
        j0 == FirstOf({j \in 1..Len(pms) : ~CompileOK(pms[j].Pattern)}, Len(pms))
        badTemplate == /\ m.ResponseTransform.Template # <<>>
                       /\ ~ParseTemplate(m.ResponseTransform.Template).ok
        tmpl == ParseTemplate(m.ResponseTransform.Template)
    IN  IF badPattern THEN [err |-> TRUE, m |-> m]
        ELSE [err |-> j0 <= Len(pms) \/ badTemplate,
              m |-> [m EXCEPT
                       !.compiledPattern = Re(ToLower(m.IntentPattern)),
                       !.ParameterMappings =
                           [j \in 1..Len(pms) |->
                               IF j < j0 THEN CompileParam(pms[j]) ELSE pms[j]],
                       !.ResponseTransform.compiled =
                           IF j0 > Len(pms) /\ m.ResponseTransform.Template # <<>>
                              /\ tmpl.ok
                           THEN Tmpl(tmpl.segs) ELSE NilPtr]]

\* Compile's loop over a rule list, stopped at the first regex that does not
\* compile: [err, rules].
compileRules(rules) ==
    LET i0 == FirstOf({i \in 1..Len(rules) :
                          rules[i].Regex # <<>> /\ ~CompileOK(rules[i].Regex)},
                      Len(rules))
    IN  [err |-> i0 <= Len(rules),
         rules |-> [i \in 1..Len(rules) |->
                       IF i < i0 THEN CompileRule(rules[i]) ELSE rules[i]]]

\* (*ConnectorConfig).Compile on any configuration: the error, and the
\* configuration as Compile leaves it, compiled up to the failure.
CompileInPlace(c) ==
    LET ms == [i \in 1..Len(c.Mappings) |-> compileMapping(c.Mappings[i])]
        i0 == FirstOf({i \in 1..Len(ms) : ms[i].err}, Len(ms))
        a == compileRules(c.Transforms.A2AToLegacy)
        l == compileRules(c.Transforms.LegacyToA2A)
    IN  [err |-> i0 <= Len(ms) \/ a.err \/ l.err,
         c |-> [c EXCEPT
                  !.Mappings = [i \in 1..Len(ms) |->
                                   IF i <= i0 THEN ms[i].m ELSE c.Mappings[i]],
                  !.Transforms.A2AToLegacy =
                      IF i0 <= Len(ms) THEN @ ELSE a.rules,
                  !.Transforms.LegacyToA2A =
                      IF i0 <= Len(ms) \/ a.err THEN @ ELSE l.rules]]

\* A configuration file: whether it can be read, its extension, whether its
\* text parses, and the configuration it parses to.
ConfigFile(readable, ext, parses, content) ==
    [readable |-> readable, ext |-> ext, parses |-> parses, content |-> content]

\* (a variant that returns the configuration whatever Compile returned)
LoadFromFileUnchecked(file) ==
    IF ~file.readable THEN [err |-> "read", config |-> <<>>]
    ELSE IF file.ext \notin {".yaml", ".yml", ".json"}
    THEN [err |-> "format", config |-> <<>>]
    ELSE IF ~file.parses THEN [err |-> "parse", config |-> <<>>]
    ELSE [err |-> "", config |-> <<CompileInPlace(file.content).c>>]

\* LoadFromFile: [err |-> the error ("" for nil), config |-> the pointer
\* returned, <<>> for nil and <<c>> for &c].
LoadFromFile(file) ==
    IF ~file.readable THEN [err |-> "read", config |-> <<>>]
    ELSE IF file.ext \notin {".yaml", ".yml", ".json"}
    THEN [err |-> "format", config |-> <<>>]
    ELSE IF ~file.parses THEN [err |-> "parse", config |-> <<>>]
    ELSE IF CompileInPlace(file.content).err
         THEN [err |-> "compile", config |-> <<>>]
         ELSE [err |-> "", config |-> <<CompileInPlace(file.content).c>>]

\* (a variant that validates the adapter only)
ValidateAdapter(c) ==
    IF c.Adapter.Type = <<>> THEN "adapter type is required"
    ELSE IF c.Adapter.BaseURL = <<>> THEN "adapter baseUrl is required"
    ELSE ""

\* ValidateConfig: the error, "" for nil.
ValidateConfig(c) ==
    LET bad == FirstOf({i \in 1..Len(c.Mappings) :
                           \/ c.Mappings[i].IntentPattern = <<>>
                           \/ c.Mappings[i].Endpoint = <<>>
                           \/ c.Mappings[i].Method = <<>>},
                       Len(c.Mappings))
    IN  IF c.Adapter.Type = <<>> THEN "adapter type is required"
        ELSE IF c.Adapter.BaseURL = <<>> THEN "adapter baseUrl is required"
        ELSE IF Len(c.Mappings) = 0 THEN "at least one mapping is required"
        ELSE IF bad > Len(c.Mappings) THEN ""
        ELSE IF c.Mappings[bad].IntentPattern = <<>> THEN "missing intentPattern"
        ELSE IF c.Mappings[bad].Endpoint = <<>> THEN "missing endpoint"
        ELSE "missing method"

(***************************************************************************)
(* ConfigTransformer (internal/proxy/config_transformer.go)                *)
(***************************************************************************)

\* findMatchingMapping's loop from mapping i: the index of the mapping
\* returned, or 0 for the "no matching mapping" error.
RECURSIVE findMatchingLoop(_, _, _)
findMatchingLoop(mappings, text, i) ==
    IF i > Len(mappings) THEN 0
    ELSE IF /\ mappings[i].compiledPattern # NilPtr
            /\ MatchString(Prog(mappings[i].compiledPattern), text)
         THEN i
         ELSE findMatchingLoop(mappings, text, i + 1)

\* (a variant that matches the text as given, without lower-casing it)
findMatchingMappingAsGiven(c, text) == findMatchingLoop(c.Mappings, text, 1)

findMatchingMapping(c, text) == findMatchingLoop(c.Mappings, ToLower(text), 1)

\* (a variant that stores the whole match instead of the first capture group)
extractOneWholeMatch(h, params, pm, taskMap, text) ==
    IF pm.Source = K("text")
    THEN IF pm.compiled # NilPtr /\ MatchString(Prog(pm.compiled), text)
         THEN setValue(h, params, pm.Target,
                       Str(FindStringSubmatch(Prog(pm.compiled), text)[1]))
         ELSE IF pm.Default # <<>>
              THEN setValue(h, params, pm.Target, Str(pm.Default))
              ELSE h
    ELSE LET value == getValueByPath(h, taskMap, pm.Source)
         IN  IF value # Nil THEN setValue(h, params, pm.Target, value)
             ELSE IF pm.Default # <<>>
                  THEN setValue(h, params, pm.Target, Str(pm.Default))
                  ELSE h

\* (a variant that has no default for a path source)
extractOneNoPathDefault(h, params, pm, taskMap, text) ==
    IF pm.Source = K("text")
    THEN IF pm.compiled # NilPtr /\ MatchString(Prog(pm.compiled), text)
         THEN LET matches == FindStringSubmatch(Prog(pm.compiled), text)
              IN  IF Len(matches) > 1
                  THEN setValue(h, params, pm.Target, Str(matches[2]))
                  ELSE h
         ELSE IF pm.Default # <<>>
              THEN setValue(h, params, pm.Target, Str(pm.Default))
              ELSE h
    ELSE LET value == getValueByPath(h, taskMap, pm.Source)
         IN  IF value # Nil THEN setValue(h, params, pm.Target, value) ELSE h

\* extractParameters' loop body for one parameter mapping: the heap after it.
extractOne(h, params, pm, taskMap, text) ==
    IF pm.Source = K("text")
    THEN IF pm.compiled # NilPtr /\ MatchString(Prog(pm.compiled), text)
         THEN LET matches == FindStringSubmatch(Prog(pm.compiled), text)
              IN  IF Len(matches) > 1
                  THEN setValue(h, params, pm.Target, Str(matches[2]))
                  ELSE h
         ELSE IF pm.Default # <<>>
              THEN setValue(h, params, pm.Target, Str(pm.Default))
              ELSE h
    ELSE LET value == getValueByPath(h, taskMap, pm.Source)
         IN  IF value # Nil THEN setValue(h, params, pm.Target, value)
             ELSE IF pm.Default # <<>>
                  THEN setValue(h, params, pm.Target, Str(pm.Default))
                  ELSE h

RECURSIVE extractLoop(_, _, _, _, _, _)
extractLoop(h, params, pms, taskMap, text, i) ==
    IF i > Len(pms) THEN h
    ELSE extractLoop(extractOne(h, params, pms[i], taskMap, text),
                     params, pms, taskMap, text, i + 1)

\* extractParameters: [h |-> the heap, params |-> the new params map]
extractParameters(h, mapping, taskMap, text) ==
    LET params == Len(h) + 1
    IN  [h |-> extractLoop(Append(h, EmptyMap), params,
                           mapping.ParameterMappings, taskMap, text, 1),
         params |-> params]

\* extractTextFromTask's loop over the parts
RECURSIVE extractTextLoop(_, _, _, _)
extractTextLoop(h, parts, i, text) ==
    IF i > Len(parts) THEN text
    ELSE LET part == parts[i]
             partType == IF TypeOf(part) = "map"
                         THEN Lookup(h[ValOf(part)], K("type")) ELSE Nil
             partText == IF TypeOf(part) = "map"
                         THEN Lookup(h[ValOf(part)], K("text")) ELSE Nil
         IN  IF partType = Str(K("text")) /\ TypeOf(partText) = "str"
             THEN extractTextLoop(h, parts, i + 1,
                      (IF text # <<>> THEN Append(text, " ") ELSE text)
                          \o ValOf(partText))
             ELSE extractTextLoop(h, parts, i + 1, text)

\* extractTextFromTask: [err, text]
extractTextFromTask(h, taskMap) ==
    LET status == Lookup(h[taskMap], K("status"))
        message == IF TypeOf(status) = "map"
                   THEN Lookup(h[ValOf(status)], K("message")) ELSE Nil
        parts == IF TypeOf(message) = "map"
                 THEN Lookup(h[ValOf(message)], K("parts")) ELSE Nil
    IN  IF TypeOf(status) # "map" THEN [err |-> "status", text |-> <<>>]
        ELSE IF TypeOf(message) # "map" THEN [err |-> "message", text |-> <<>>]
        ELSE IF TypeOf(parts) # "arr" THEN [err |-> "parts", text |-> <<>>]
        ELSE [err |-> "", text |-> extractTextLoop(h, ValOf(parts), 1, <<>>)]

\* getTaskID; now is the clock reading used when the task has no string id.
\* (a variant that never uses the task's id)
getTaskIDGenerated(h, taskMap, now) == <<"task-", now>>

getTaskID(h, taskMap, now) ==
    LET id == Lookup(h[taskMap], K("id"))
    IN  IF TypeOf(id) = "str" THEN ValOf(id) ELSE <<"task-", now>>

\* re.FindAllStringSubmatch(endpoint, -1) for \{([^}]+)\}: the names of the
\* tokens, in order.  A token is a "{", at least one symbol that is not "}",
\* and the first "}" after them.
RECURSIVE CloseAt(_, _)
CloseAt(s, i) ==
    IF i > Len(s) THEN 0 ELSE IF s[i] = "}" THEN i ELSE CloseAt(s, i + 1)

RECURSIVE FindAllTokens(_, _)
FindAllTokens(s, i) ==
    IF i > Len(s) THEN <<>>
    ELSE LET e == CloseAt(s, i + 1)
         IN  IF s[i] = "{" /\ e > i + 1
             THEN <<Slice(s, i + 1, e)>> \o FindAllTokens(s, e + 1)
             ELSE FindAllTokens(s, i + 1)

\* renderEndpoint's loop over the matches; params is the map's content.
RECURSIVE renderLoop(_, _, _, _)
renderLoop(result, matches, params, i) ==
    IF i > Len(matches) THEN result
    ELSE LET paramName == matches[i]
             placeholder == <<"{">> \o paramName \o <<"}">>
             value == Lookup(params, paramName)
         IN  renderLoop(
                 CASE TypeOf(value) = "str" ->
                        ReplaceAll(result, placeholder, ValOf(value))
                   [] TypeOf(value) = "num" ->
                        ReplaceAll(result, placeholder, FormatNum(ValOf(value)))
                   [] TypeOf(value) = "bool" ->
                        ReplaceAll(result, placeholder, FormatBool(ValOf(value)))
                   [] OTHER -> result,
                 matches, params, i + 1)

renderEndpoint(endpoint, params) ==
    renderLoop(endpoint, FindAllTokens(endpoint, 1), params, 1)

\* applyTransformRule: the heap after the rule.
applyTransformRule(h, rule, source, target) ==
    LET sourceValue == getValueByPath(h, source, rule.Source)
        isStr == TypeOf(sourceValue) = "str"
        matches == IF rule.Regex # <<>> /\ rule.compiled # NilPtr /\ isStr
                   THEN FindStringSubmatch(Prog(rule.compiled), ValOf(sourceValue))
                   ELSE <<>>
        afterRegex == IF Len(matches) > 1 THEN Str(matches[2]) ELSE sourceValue
        targetValue == IF rule.Template # <<>> /\ isStr
                       THEN Str(ReplaceAll(rule.Template, <<"{", "value", "}">>,
                                           ValOf(sourceValue)))
                       ELSE afterRegex
    IN  IF sourceValue = Nil THEN h
        ELSE setValue(h, target, rule.Target, targetValue)

\* The loop over a rule list: the heap after rules i .. n.
RECURSIVE applyRules(_, _, _, _, _, _)
applyRules(h, rules, source, target, i, n) ==
    IF i > n THEN h
    ELSE applyRules(applyTransformRule(h, rules[i], source, target),
                    rules, source, target, i + 1, n)

\* A body that is no JSON text.
Malformed == <<"malformed">>

\* json.Unmarshal(data, &m) for m a map[string]interface{}, into an empty heap:
\* the map is object 1.  JSON null leaves m nil, which reads as an empty map;
\* any other JSON value that is no object is an error, as is a malformed text.
Unmarshal(data) ==
    CASE TypeOf(data) = "obj" -> [err |-> FALSE, h |-> Load(<<>>, data).h]
      [] TypeOf(data) = "nil" -> [err |-> FALSE, h |-> <<EmptyMap>>]
      [] OTHER -> [err |-> TRUE, h |-> <<EmptyMap>>]

\* The locals of a transformRequest / transformResponse call that returned an
\* error before building anything.
NoLocals(err) ==
    [err |-> err, out |-> Malformed, h |-> <<>>, h0 |-> <<>>, source |-> 0,
     target |-> 0, text |-> <<>>, mapping |-> 0, params |-> 0, taskID |-> <<>>,
     taskState |-> "", parts |-> <<>>, rendered |-> TRUE]

\* transformRequest(data): the A2A task to the legacy request.  err is "" and
\* out the marshalled request, or err names the failure.  h0 is the heap when
\* the request is assembled, h the heap after the global rules.
transformRequest(c, data, now) ==
    LET u == Unmarshal(data)
        taskMap == 1
        t == extractTextFromTask(u.h, taskMap)
        mi == findMatchingMapping(c, t.text)
        mappingConfig == c.Mappings[mi]
        e == extractParameters(u.h, mappingConfig, taskMap, t.text)
        taskID == getTaskID(e.h, taskMap, now)
        meta == Len(e.h) + 1
        legacyRequest == Len(e.h) + 2
        h0 == e.h \o
              << K("taskId") :> Str(taskID) @@
                 K("timestamp") :> Str(<<now>>) @@
                 K("endpoint") :>
                     Str(renderEndpoint(mappingConfig.Endpoint, e.h[e.params])) @@
                 K("mappingId") :> Str(mappingConfig.IntentPattern),
                 K("action") :> Str(mappingConfig.Method) @@
                 K("params") :> Ref(e.params) @@
                 K("meta") :> Ref(meta) >>
        rules == c.Transforms.A2AToLegacy
        h == applyRules(h0, rules, taskMap, legacyRequest, 1, Len(rules))
        out == Tree(h, Ref(legacyRequest), {})
    IN  IF u.err THEN NoLocals("unmarshal")
        ELSE IF t.err # "" THEN NoLocals(t.err)
        ELSE IF mi = 0 THEN NoLocals("nomatch")
        ELSE [NoLocals(IF HasCycle(out) THEN "marshal" ELSE "") EXCEPT
                !.out = IF HasCycle(out) THEN Malformed ELSE out,
                !.h = h, !.h0 = h0, !.source = taskMap, !.target = legacyRequest,
                !.text = t.text, !.mapping = mi, !.params = e.params,
                !.taskID = taskID]

\* transformResponse's scan for the mapping whose IntentPattern is mappingID:
\* its index, or 0 (the zero ResponseTransform is used).
RECURSIVE findResponseTransform(_, _, _)
findResponseTransform(mappings, mappingID, i) ==
    IF i > Len(mappings) THEN 0
    ELSE IF mappings[i].IntentPattern = mappingID THEN i
         ELSE findResponseTransform(mappings, mappingID, i + 1)

\* transformResponse from the task id to task["metadata"] = meta, on the heap h
\* that holds the legacy response as object 1: the heap h0 with the task
\* assembled, and the locals.
assembleTask(c, h, now) ==
    LET legacyResponse == 1
        lr == h[legacyResponse]
        meta == Lookup(lr, K("meta"))
        metaId == IF TypeOf(meta) = "map"
                  THEN Lookup(h[ValOf(meta)], K("taskId")) ELSE Nil
        taskID == IF TypeOf(metaId) = "str" THEN ValOf(metaId) ELSE K("unknown-task")
        metaMapping == IF TypeOf(meta) = "map"
                       THEN Lookup(h[ValOf(meta)], K("mappingId")) ELSE Nil
        mappingID == IF TypeOf(metaMapping) = "str" THEN ValOf(metaMapping) ELSE <<>>
        mi == findResponseTransform(c.Mappings, mappingID, 1)
        responseTransform ==
            IF mi = 0 THEN [Template |-> <<>>, compiled |-> NilPtr]
            ELSE c.Mappings[mi].ResponseTransform
        status == Lookup(lr, K("status"))
        error == Lookup(lr, K("error"))
        hasError == TypeOf(error) = "str" /\ ValOf(error) # <<>>
        taskState ==
            IF hasError THEN "failed"
            ELSE IF TypeOf(status) = "str" /\ ValOf(status) # K("success")
                 THEN "failed" ELSE "completed"
        useTemplate ==
            responseTransform.Template # <<>> /\ responseTransform.compiled # NilPtr
        x == IF useTemplate
             THEN Execute(h, responseTransform.compiled, Ref(legacyResponse))
             ELSE [ok |-> TRUE, out |-> <<>>]
        textContent ==
            (IF TypeOf(status) = "str"
             THEN <<"Status: ">> \o ValOf(status) \o <<"\n">> ELSE <<>>)
            \o (IF hasError THEN <<"Error: ">> \o ValOf(error) \o <<"\n">> ELSE <<>>)
        \* the text parts' contents (none or one)
        texts == IF useTemplate
                 THEN IF x.ok THEN <<x.out>> ELSE <<>>
                 ELSE IF textContent # <<>> THEN <<textContent>> ELSE <<>>
        result == Lookup(lr, K("result"))
        nText == Len(texts)
        nData == IF TypeOf(result) = "map" THEN 1 ELSE 0
        base == Len(h)
        textPart == IF nText = 1
                    THEN << K("type") :> Str(K("text")) @@ K("text") :> Str(texts[1]) >>
                    ELSE <<>>
        dataPart == IF nData = 1
                    THEN << K("type") :> Str(K("data")) @@ K("data") :> result >>
                    ELSE <<>>
        parts == [i \in 1..(nText + nData) |-> Ref(base + i)]
        message == base + nText + nData + 1
        statusMap == message + 1
        task == message + 2
    IN  [h0 |-> h \o textPart \o dataPart \o
                << K("role") :> Str(K("agent")) @@ K("parts") :> Arr(parts),
                   K("state") :> Str(K(taskState)) @@
                   K("message") :> Ref(message) @@
                   K("timestamp") :> Str(<<now>>),
                   IF TypeOf(meta) = "map"
                   THEN K("id") :> Str(taskID) @@ K("status") :> Ref(statusMap) @@
                        K("metadata") :> meta
                   ELSE K("id") :> Str(taskID) @@ K("status") :> Ref(statusMap) >>,
         source |-> legacyResponse, target |-> task, mapping |-> mi,
         taskID |-> taskID, taskState |-> taskState, parts |-> parts,
         rendered |-> x.ok]

\* (a variant that leaves the metadata out of the task)
transformResponseNoMetadata(c, data, now) ==
    LET u == Unmarshal(data)
        a == assembleTask(c, u.h, now)
        task == a.h0[a.target]
        h0 == [a.h0 EXCEPT ![a.target] =
                 [k \in DOMAIN task \ {K("metadata")} |-> task[k]]]
        rules == c.Transforms.LegacyToA2A
        h == applyRules(h0, rules, a.source, a.target, 1, Len(rules))
        out == Tree(h, Ref(a.target), {})
    IN  IF u.err THEN NoLocals("unmarshal")
        ELSE [NoLocals(IF HasCycle(out) THEN "marshal" ELSE "") EXCEPT
                !.out = IF HasCycle(out) THEN Malformed ELSE out,
                !.h = h, !.h0 = h0, !.source = a.source, !.target = a.target,
                !.mapping = a.mapping, !.taskID = a.taskID,
                !.taskState = a.taskState, !.parts = a.parts,
                !.rendered = a.rendered]

\* transformResponse(data): the legacy response to the A2A task.
transformResponse(c, data, now) ==
    LET u == Unmarshal(data)
        a == assembleTask(c, u.h, now)
        rules == c.Transforms.LegacyToA2A
        h == applyRules(a.h0, rules, a.source, a.target, 1, Len(rules))
        out == Tree(h, Ref(a.target), {})
    IN  IF u.err THEN NoLocals("unmarshal")
        ELSE [NoLocals(IF HasCycle(out) THEN "marshal" ELSE "") EXCEPT
                !.out = IF HasCycle(out) THEN Malformed ELSE out,
                !.h = h, !.h0 = a.h0, !.source = a.source, !.target = a.target,
                !.mapping = a.mapping, !.taskID = a.taskID,
                !.taskState = a.taskState, !.parts = a.parts,
                !.rendered = a.rendered]

(***************************************************************************)
(* Transformer (the request/response transformer) and Proxy               *)
(***************************************************************************)

\* len(body): the number of symbols of the body's text.
RECURSIVE Size(_), SizeKeys(_, _), SizeElems(_, _)
Size(tree) ==
    CASE TypeOf(tree) = "obj" -> 2 + SizeKeys(ValOf(tree), DOMAIN ValOf(tree))
      [] TypeOf(tree) = "arr" -> 2 + SizeElems(ValOf(tree), 1)
      [] TypeOf(tree) = "str" -> 2 + Len(ValOf(tree))
      [] OTHER -> 1

SizeKeys(f, ks) ==
    IF ks = {} THEN 0
    ELSE LET k == CHOOSE x \in ks : TRUE
         IN  Len(k) + 3 + Size(f[k]) + SizeKeys(f, ks \ {k})

SizeElems(s, i) ==
    IF i > Len(s) THEN 0 ELSE Size(s[i]) + 1 + SizeElems(s, i + 1)

\* A header value: the decimal text of n, and string(rune(n)), the one
\* character whose code point is n.
Itoa(n) == <<"decimal", n>>
RuneString(n) == <<"rune", n>>

\* A message body (io.ReadCloser): whose stream it is, the data it yields,
\* whether it has been read to the end, whether it is closed, and whether
\* reading it fails.
Body(origin, data, broken) ==
    [origin |-> origin, data |-> data, drained |-> FALSE, closed |-> FALSE,
     broken |-> broken]

\* A nil Body
NoBody ==
    [origin |-> "nil", data |-> Nil, drained |-> TRUE, closed |-> TRUE,
     broken |-> FALSE]

\* ioutil.NopCloser(bytes.NewBuffer(transformed))
NopCloser(transformed) == Body("transformed", transformed, FALSE)

\* The one element of a singleton set.
Only(S) == CHOOSE x \in S : TRUE

\* req.Body, req.ContentLength and the Content-Length header set from the
\* transformed bytes.
Replaced(r, transformed) ==
    [r EXCEPT
       !.Body = NopCloser(transformed),
       !.ContentLength = Size(transformed),
       !.Header = [@ EXCEPT !["Content-Length"] = RuneString(Size(transformed))]]

\* ioutil.ReadAll(r.Body) and r.Body.Close()
ReadAndClosed(r) == [r EXCEPT !.Body.drained = TRUE, !.Body.closed = TRUE]

\* Transformer.TransformRequest with the ConfigTransformer's request
\* transform: [req |-> the request after it, tq |-> the transform's locals].
TransformRequest(c, r, now) ==
    IF r.Body = NoBody THEN [req |-> r, tq |-> NoLocals("nobody")]
    ELSE Only({ [req |-> IF t.err = "" THEN Replaced(r, t.out) ELSE ReadAndClosed(r),
                 tq |-> t] :
                t \in { IF r.Body.broken THEN NoLocals("read")
                        ELSE transformRequest(c, r.Body.data, now) } })

\* (a variant that drops a response-side error as TransformRequest does)
TransformResponseLenient(c, r, now) ==
    IF r.Body = NoBody THEN [err |-> "", resp |-> r, tr |-> NoLocals("nobody")]
    ELSE Only({ [err |-> "",
                 resp |-> IF t.err = "" THEN Replaced(r, t.out) ELSE ReadAndClosed(r),
                 tr |-> t] :
                t \in { IF r.Body.broken THEN NoLocals("read")
                        ELSE transformResponse(c, r.Body.data, now) } })

\* Transformer.TransformResponse with the ConfigTransformer's response
\* transform: [err |-> the error returned ("" for nil), resp |-> the response
\* after it, tr |-> the transform's locals].
TransformResponse(c, r, now) ==
    IF r.Body = NoBody THEN [err |-> "", resp |-> r, tr |-> NoLocals("nobody")]
    ELSE Only({ [err |-> t.err,
                 resp |-> IF t.err # "" THEN ReadAndClosed(r) ELSE Replaced(r, t.out),
                 tr |-> t] :
                t \in { IF r.Body.broken THEN NoLocals("read")
                        ELSE transformResponse(c, r.Body.data, now) } })

(***************************************************************************)
(* State                                                                   *)
(***************************************************************************)

VARIABLES
    cfg,      \* ConfigTransformer.Config, loaded and compiled
    pc,       \* where the call in flight is in the pipeline
    via,      \* the entry point of the call: "HandleRequest" or "ServeHTTP"
    inbound,  \* the inbound *http.Request
    req,      \* the outbound *http.Request
    resp,     \* the legacy system's *http.Response
    tq,       \* the locals of the call's transformRequest
    tr,       \* the locals of the call's transformResponse
    ret,      \* what HandleRequest / ModifyResponse returned
    call      \* the last call of a function applied on its own

vars == <<cfg, pc, via, inbound, req, resp, tq, tr, ret, call>>

pipeline == <<pc, via, inbound, req, resp, tq, tr, ret>>

\* All the sequences over S of length at most n.
SeqsUpTo(S, n) == UNION {[1..k -> S] : k \in 0..n}

NoCall == [op |-> "none"]
NoMessage ==
    [Body |-> NoBody, ContentLength |-> 0, Header |-> [k \in {"Content-Length"} |-> <<>>]]
NoConfig == ConnectorConfig(<<>>, <<>>, <<>>)

PipelineIdle ==
    /\ pc = "Idle"
    /\ via = ""
    /\ inbound = NoMessage
    /\ req = NoMessage
    /\ resp = NoMessage
    /\ tq = NoLocals("")
    /\ tr = NoLocals("")
    /\ ret = <<"none">>

(***************************************************************************)
(* findMatchingMapping applied to bounded inputs                           *)
(***************************************************************************)

\* The longest mapping list drawn.
MaxMappings == 2

IntentPatterns ==
    { <<"get">>, <<"Get", " ", "customer">>, <<"customer">>,
      <<"\\W+", "id">>, <<"order", "$">> }

Texts ==
    { <<>>, <<"Get", " ", "customer", " ", "ID", ":", "X1">>,
      <<"get", " ", "order">>, <<"customer", " ", "id">>,
      <<"order", " ", "Customer">>, <<":", " ", "7">> }

MatchConfigs ==
    { Compile(ConnectorConfig(
          [i \in 1..Len(ps) |->
              MappingConfig(ps[i], <<"/", "m">>, K("GET"), <<>>, <<>>)],
          <<>>, <<>>)) :
      ps \in SeqsUpTo(IntentPatterns, MaxMappings) }

InitMatch ==
    /\ cfg \in MatchConfigs
    /\ call = NoCall
    /\ PipelineIdle

FindMatchingMapping ==
    /\ \E text \in Texts :
          call' = [op |-> "findMatchingMapping", text |-> text,
                   result |-> findMatchingMapping(cfg, text)]
    /\ UNCHANGED <<cfg, pipeline>>

NextMatch == FindMatchingMapping

SpecMatch == InitMatch /\ [][NextMatch]_vars

\* Whether mapping i's compiled intent pattern matches the lower-cased text.
IntentMatches(i, text) ==
    /\ cfg.Mappings[i].compiledPattern # NilPtr
    /\ MatchString(Prog(cfg.Mappings[i].compiledPattern), ToLower(text))

\* C1: findMatchingMapping returns the mapping with the smallest declaration
\* index whose compiled intent pattern matches the lower-cased text, and the
\* no-match error exactly when no mapping matches.
C1_EarliestMatch ==
    call.op = "findMatchingMapping" =>
        /\ call.result = 0 <=>
              \A i \in 1..Len(cfg.Mappings) : ~IntentMatches(i, call.text)
        /\ call.result # 0 =>
              /\ call.result \in 1..Len(cfg.Mappings)
              /\ IntentMatches(call.result, call.text)
              /\ \A i \in 1..(call.result - 1) : ~IntentMatches(i, call.text)

\* Two mappings match a text with upper-case letters and the first is returned.
C1_Witness ==
    /\ call.op = "findMatchingMapping"
    /\ call.result = 1
    /\ call.text # ToLower(call.text)
    /\ \E i \in 2..Len(cfg.Mappings) : IntentMatches(i, call.text)

(***************************************************************************)
(* The Path Accessor applied to bounded inputs                             *)
(***************************************************************************)

\* The number of setValue calls made on one root.
MaxSets == 2

\* The roots: object 1 of each heap.
PathRoots ==
    { <<EmptyMap>>,
      Load(<<>>, Obj(K("a") :> Obj(K("b") :> Num(1)) @@ K("n") :> Num(5))).h,
      << K("s") :> SRef(2) @@ K("a") :> Str(K("x1")), K("k") :> K("b") >>,
      Load(<<>>, Obj(K("a") :> Obj(K("b") :> Obj(K("c") :> Str(K("x1")))) @@
                     K("n") :> Nil)).h }

Paths ==
    { <<"a">>, <<"a", ".", "b">>, <<"a", ".", "b", ".", "c">>,
      <<"s", ".", "k">>, <<"n", ".", "a">>, <<"a", ".">>, <<"a", ".", "a">> }

\* The values written: scalars, nil, the root itself and the newest map.
PathValues(h) == {Str(K("7")), Nil, Ref(1), Ref(Len(h))}

InitPath ==
    /\ cfg = NoConfig
    /\ call \in {[op |-> "new", h |-> h, n |-> 0] : h \in PathRoots}
    /\ PipelineIdle

SetValue ==
    /\ call.n < MaxSets
    /\ \E path \in Paths, value \in PathValues(call.h) :
          call' = [op |-> "setValue", before |-> call.h, path |-> path,
                   value |-> value, h |-> setValue(call.h, 1, path, value),
                   n |-> call.n + 1]
    /\ UNCHANGED <<cfg, pipeline>>

GetValueByPath ==
    /\ call.op # "getValueByPath"
    /\ \E path \in Paths :
          call' = [op |-> "getValueByPath", path |-> path,
                   result |-> getValueByPath(call.h, 1, path), h |-> call.h,
                   n |-> call.n]
    /\ UNCHANGED <<cfg, pipeline>>

NextPath == SetValue \/ GetValueByPath

SpecPath == InitPath /\ [][NextPath]_vars

\* C2: after setValue(root, path, value), getValueByPath(root, path) returns
\* exactly value, whatever was stored along the path before.
C2_RoundTrip ==
    call.op = "setValue" => getValueByPath(call.h, 1, call.path) = call.value

\* A value was written through a segment that held a scalar.
C2_Witness ==
    /\ call.op = "setValue"
    /\ Len(Split(call.path)) > 1
    /\ TypeOf(Lookup(call.before[1], Split(call.path)[1])) \in {"str", "num"}
    /\ call.value # Nil

(***************************************************************************)
(* extractParameters applied to bounded inputs                             *)
(***************************************************************************)

\* The longest parameter mapping list drawn.
MaxParams == 2

ParameterMappings ==
    { ParameterMapping(K("text"), pattern, target, default) :
        pattern \in {<<":", "(", "\\w+", ")", "$">>, <<"get">>},
        target \in {<<"id">>, <<"q", ".", "id">>, <<"q">>},
        default \in {<<>>, <<"none">>} }
    \cup
    { ParameterMapping(<<"metadata", ".", "user">>, <<>>, target, default) :
        target \in {<<"id">>, <<"q", ".", "id">>},
        default \in {<<>>, <<"none">>} }
    \cup
    { ParameterMapping(K("text"), <<>>, <<"id">>, <<"none">>) }

ParamConfigs ==
    { Compile(ConnectorConfig(
          <<MappingConfig(<<"get">>, <<"/", "m">>, K("GET"), pms, <<>>)>>,
          <<>>, <<>>)) :
      pms \in SeqsUpTo(ParameterMappings, MaxParams) }

ParamTexts ==
    { <<"Get", ":", "X1">>, <<"get", ":", " ">>, <<"order">>,
      <<"Get", " ", "ID", ":", "X1", "7">> }

\* The task payloads a path source reads.
ParamTasks ==
    { Obj(K("id") :> Str(K("task-123"))),
      Obj(K("metadata") :> Obj(K("user") :> Obj(K("id") :> Num(7)))) }

InitParams ==
    /\ cfg \in ParamConfigs
    /\ call = NoCall
    /\ PipelineIdle

ExtractParameters ==
    /\ \E text \in ParamTexts, task \in ParamTasks :
          LET e == extractParameters(Load(<<>>, task).h, cfg.Mappings[1], 1, text)
          IN  call' = [op |-> "extractParameters", text |-> text, task |-> task,
                       h |-> e.h, params |-> e.params]
    /\ UNCHANGED <<cfg, pipeline>>

NextParams == ExtractParameters

SpecParams == InitParams /\ [][NextParams]_vars

\* The number of capture groups of a pattern.
NumSubexp(p) == Cardinality({k \in 1..Len(p) : p[k] = "("})

\* Whether one of two dot-paths is the other or leads to it.
IsPrefix(a, b) == Len(a) <= Len(b) /\ SubSeq(b, 1, Len(a)) = a
Overlap(p, q) == IsPrefix(Split(p), Split(q)) \/ IsPrefix(Split(q), Split(p))

\* params[target] as C3 states it for the text parameter mapping pm.
TextParameter(pm, text) ==
    LET found == FindStringSubmatch(pm.Pattern, text)
    IN  IF found # <<>> THEN Str(found[2])
        ELSE IF pm.Default # <<>> THEN Str(pm.Default) ELSE Nil

\* C3 as stated: for each text parameter mapping whose pattern has a capture
\* group, params[target] is the first capture group if the pattern matches,
\* else the default if one is declared, else absent.
C3_TextParameters ==
    call.op = "extractParameters" =>
        \A i \in 1..Len(cfg.Mappings[1].ParameterMappings) :
            LET pm == cfg.Mappings[1].ParameterMappings[i]
            IN  (pm.Source = K("text") /\ NumSubexp(pm.Pattern) >= 1) =>
                    getValueByPath(call.h, call.params, pm.Target)
                        = TextParameter(pm, call.text)

\* C3 as amended: the same for each such parameter mapping whose target no
\* other parameter mapping of the list writes at, above or below.
C3_TextParametersDisjoint ==
    call.op = "extractParameters" =>
        LET pms == cfg.Mappings[1].ParameterMappings
        IN  \A i \in 1..Len(pms) :
                ( /\ pms[i].Source = K("text")
                  /\ NumSubexp(pms[i].Pattern) >= 1
                  /\ \A j \in 1..Len(pms) :
                        j # i => ~Overlap(pms[i].Target, pms[j].Target) ) =>
                    getValueByPath(call.h, call.params, pms[i].Target)
                        = TextParameter(pms[i], call.text)

\* Two parameter mappings with disjoint targets ran and the capture, with its
\* upper-case letters, is in params.
C3_Witness ==
    /\ call.op = "extractParameters"
    /\ Len(cfg.Mappings[1].ParameterMappings) = 2
    /\ LET pms == cfg.Mappings[1].ParameterMappings
       IN  /\ pms[1].Source = K("text")
           /\ NumSubexp(pms[1].Pattern) = 1
           /\ ~Overlap(pms[1].Target, pms[2].Target)
           /\ getValueByPath(call.h, call.params, pms[1].Target) = Str(K("X1"))

(***************************************************************************)
(* renderEndpoint applied to bounded inputs                                *)
(***************************************************************************)

Endpoints ==
    { <<"/", "customers", "/", "{", "id", "}">>,
      <<"/", "{", "a", "}", "/", "{", "b", "}">>,
      <<"{", "b", "}", "/", "{", "a", "}">>,
      <<"{", "a", "}", "{", "a", "}">>,
      <<"/", "{", "x1", "}", "/", "{", "id", "}">>,
      <<"{", "{", "a", "}", "}">>,
      <<"{", "}", "/", "{", "a">>,
      <<"/", "customers">>,
      <<"{", "a", ".", "b", "}", "/", "{", "id", "}">>,
      <<"{", "a", "}", "b", "}", "/", "{", "b", "}">> }

\* The contents of the params maps.
RenderParams ==
    { EmptyMap,
      K("id") :> Str(K("12345")),
      K("id") :> Num(12345) @@ K("a") :> Bool(TRUE),
      K("a") :> Str(K("x1")) @@ K("b") :> Str(K("7")),
      K("a") :> Str(<<"{", "b", "}">>) @@ K("b") :> Str(K("7")),
      K("a") :> Str(<<"{", "b", "}">>),
      K("a") :> Str(K("{")) @@ K("b") :> Str(K("7")),
      K("a") :> Ref(1) @@ K("id") :> Nil @@ K("b") :> Str(<<>>),
      K("a") :> Str(<<"{", "a", "}">>) @@ K("id") :> Str(<<"x1", "/", "7">>),
      K("a") :> Obj(K("b") :> Str(K("7"))) @@ K("id") :> Num(7) }

RenderConfigs ==
    { Compile(ConnectorConfig(
          <<MappingConfig(<<"get">>, endpoint, K("GET"), <<>>, <<>>)>>,
          <<>>, <<>>)) :
      endpoint \in Endpoints }

InitRender ==
    /\ cfg \in RenderConfigs
    /\ call = NoCall
    /\ PipelineIdle

RenderEndpoint ==
    /\ \E params \in RenderParams :
          call' = [op |-> "renderEndpoint", params |-> params,
                   result |-> renderEndpoint(cfg.Mappings[1].Endpoint, params)]
    /\ UNCHANGED <<cfg, pipeline>>

NextRender == RenderEndpoint

SpecRender == InitRender /\ [][NextRender]_vars

\* The textual form of a parameter value, for the types that have one.
Resolvable(value) == TypeOf(value) \in {"str", "num", "bool"}
TextualForm(value) ==
    CASE TypeOf(value) = "str" -> ValOf(value)
      [] TypeOf(value) = "num" -> <<ToString(ValOf(value))>>
      [] TypeOf(value) = "bool" -> IF ValOf(value) THEN <<"true">> ELSE <<"false">>

\* The template with each resolvable token replaced by its value's textual
\* form, every other token and all the text outside the tokens kept.
RECURSIVE Substituted(_, _, _)
Substituted(s, i, params) ==
    IF i > Len(s) THEN <<>>
    ELSE LET e == CloseAt(s, i + 1)
             name == Slice(s, i + 1, e)
         IN  IF s[i] = "{" /\ e > i + 1
             THEN (IF Resolvable(Lookup(params, name))
                   THEN TextualForm(Lookup(params, name))
                   ELSE Slice(s, i, e + 1))
                  \o Substituted(s, e + 1, params)
             ELSE <<s[i]>> \o Substituted(s, i + 1, params)

\* C4 as stated: renderEndpoint replaces each {name} token whose name is a key
\* of params holding a string, number or boolean by the value's textual form,
\* leaves every other token in place and leaves the text outside the tokens
\* unchanged.
C4_RenderEndpoint ==
    call.op = "renderEndpoint" =>
        call.result = Substituted(cfg.Mappings[1].Endpoint, 1, call.params)

(***************************************************************************)
(* transformResponse applied to bounded inputs                             *)
(***************************************************************************)

MaxRules == 2

\* time.Now() readings
Clock == {"1700000000", "1700000001"}

ResponseTemplate == <<"Customer: ", "{{", ".", "result", ".", "name", "}}">>

ResponseMappings ==
    << MappingConfig(<<"get">>, <<"/", "customers", "/", "{", "id", "}">>,
                     K("GET"), <<>>, ResponseTemplate),
       MappingConfig(<<"list">>, <<"/", "customers">>, K("GET"), <<>>, <<>>) >>

\* transforms.legacyToA2A rules
ResponseRules ==
    { TransformRule(<<"status">>, <<"legacyStatus">>, <<>>, <<>>),
      TransformRule(<<"meta", ".", "taskId">>, <<"metadata", ".", "taskId">>,
                    <<>>, <<"{", "value", "}", "!">>),
      TransformRule(<<"meta", ".", "customer">>, <<"customer">>, <<>>, <<>>),
      TransformRule(<<"result", ".", "name">>, <<"metadata", ".", "customer">>,
                    <<"(", "\\w+", ")">>, <<>>),
      TransformRule(<<"meta">>, <<"metadata", ".", "self">>, <<>>, <<>>) }

ResponseConfigs ==
    { Compile(ConnectorConfig(ResponseMappings, <<>>, rules)) :
      rules \in SeqsUpTo(ResponseRules, MaxRules) }

\* A JSON object with the members whose value is given; Absent leaves one out.
Absent == <<"absent">>
Members(f) == Obj([k \in {x \in DOMAIN f : f[x] # Absent} |-> f[k]])

LegacyResponses ==
    { Members(K("status") :> status @@ K("error") :> error @@
              K("result") :> result @@ K("meta") :> meta) :
      status \in {Absent, Str(K("success")), Str(K("error")), Num(500)},
      error \in {Absent, Str(<<>>), Str(<<"not", " ", "found">>),
                 Obj(K("code") :> Num(404))},
      result \in {Absent, Nil, Str(K("ok")), Obj(K("name") :> Str(K("Ann")))},
      meta \in {Absent,
                Obj(K("taskId") :> Str(K("task-9")) @@ K("mappingId") :> Str(K("get"))),
                Obj(K("taskId") :> Str(K("task-9")) @@ K("mappingId") :> Str(K("list"))),
                Obj(K("taskId") :> Num(9)), Str(K("m"))} }
    \cup {Malformed}

InitResponse ==
    /\ cfg \in ResponseConfigs
    /\ call = NoCall
    /\ PipelineIdle

\* (one call in each behaviour)
TransformResponseCall ==
    /\ call = NoCall
    /\ \E data \in LegacyResponses, now \in Clock :
          call' = [op |-> "transformResponse", data |-> data, now |-> now,
                   r |-> transformResponse(cfg, data, now)]
    /\ UNCHANGED <<cfg, pipeline>>

NextResponse == TransformResponseCall

SpecResponse == InitResponse /\ [][NextResponse]_vars

\* A member of a JSON object, null when there is none.
Field(tree, k) ==
    IF TypeOf(tree) = "obj" /\ K(k) \in DOMAIN ValOf(tree)
    THEN ValOf(tree)[K(k)] ELSE Nil

\* The task as transformResponse assembled it.
AssembledTask(r) == Tree(r.h0, Ref(r.target), {})
AssembledParts(r) ==
    ValOf(Field(Field(Field(AssembledTask(r), "status"), "message"), "parts"))

\* C6 as stated: the task state is "completed" unless the legacy response's
\* status is different from "success" or its error is non-empty, and then it is
\* "failed".  A response without status has no status that differs, and an
\* absent or empty-string error is empty.
C6_TaskState ==
    (call.op = "transformResponse" /\ call.r.target # 0) =>
        LET status == Field(call.data, "status")
            error == Field(call.data, "error")
            failed == \/ status \notin {Nil, Str(K("success"))}
                      \/ error \notin {Nil, Str(<<>>)}
        IN  Field(Field(AssembledTask(call.r), "status"), "state")
                = Str(K(IF failed THEN "failed" ELSE "completed"))

\* C7 as stated: with a configured and compiled response template for the
\* selected mapping the parts hold exactly one text part, with the rendered
\* template; without one they hold the default summary of the status and error
\* strings present (no text part when neither is); and a data part with the
\* result follows exactly when the result is an object.
C7_Parts ==
    (call.op = "transformResponse" /\ call.r.target # 0) =>
        LET parts == AssembledParts(call.r)
            texts == SelectSeq(parts, LAMBDA part : Field(part, "type") = Str(K("text")))
            datas == SelectSeq(parts, LAMBDA part : Field(part, "type") = Str(K("data")))
            mi == call.r.mapping
            rt == IF mi = 0 THEN [Template |-> <<>>, compiled |-> NilPtr]
                  ELSE cfg.Mappings[mi].ResponseTransform
            x == Execute(Unmarshal(call.data).h, rt.compiled, Ref(1))
            status == Field(call.data, "status")
            error == Field(call.data, "error")
            summary ==
                (IF TypeOf(status) = "str"
                 THEN <<"Status: ">> \o ValOf(status) \o <<"\n">> ELSE <<>>)
                \o (IF TypeOf(error) = "str" /\ ValOf(error) # <<>>
                    THEN <<"Error: ">> \o ValOf(error) \o <<"\n">> ELSE <<>>)
            result == Field(call.data, "result")
        IN  /\ parts = texts \o datas
            /\ IF rt.Template # <<>> /\ rt.compiled # NilPtr
               THEN /\ Len(texts) = 1
                    /\ x.ok => Field(texts[1], "text") = Str(x.out)
               ELSE texts = IF summary = <<>> THEN <<>>
                            ELSE << Obj(K("type") :> Str(K("text")) @@
                                        K("text") :> Str(summary)) >>
            /\ datas = IF TypeOf(result) = "obj"
                       THEN << Obj(K("type") :> Str(K("data")) @@ K("data") :> result) >>
                       ELSE <<>>

\* C8 as stated: while the rule list is applied the source object is never
\* modified: after the rules the legacy response holds what it held when the
\* task was assembled, so every rule resolved its source path in the response
\* as it was received.
C8_FixedSource ==
    (call.op = "transformResponse" /\ call.r.target # 0) =>
        /\ Tree(call.r.h, Ref(call.r.source), {}) = call.data
        /\ Tree(call.r.h0, Ref(call.r.source), {}) = call.data

\* C9 as stated: the rule list run a second time against the same source
\* object, on a target rebuilt as it was first built, leaves the target with
\* the contents the first run left.
C9_Idempotent ==
    (call.op = "transformResponse" /\ call.r.target # 0) =>
        LET rules == cfg.Transforms.LegacyToA2A
            first == Tree(call.r.h, Ref(call.r.target), {})
            again == assembleTask(cfg, call.r.h, call.now)
            h2 == applyRules(again.h0, rules, again.source, again.target,
                             1, Len(rules))
        IN  Tree(h2, Ref(again.target), {}) = first

(***************************************************************************)
(* The interception pipeline: one call at a time through the proxy         *)
(***************************************************************************)

PipelineMappings ==
    << MappingConfig(<<"Get", " ", "customer">>,
                     <<"/", "customers", "/", "{", "id", "}">>, K("GET"),
                     << ParameterMapping(K("text"), <<":", "(", "\\w+", ")", "$">>,
                                         <<"id">>, <<>>),
                        ParameterMapping(<<"metadata", ".", "user">>, <<>>,
                                         <<"user">>, <<>>) >>,
                     ResponseTemplate),
       MappingConfig(<<"order">>, <<"/", "orders">>, K("POST"), <<>>, <<>>) >>

\* The rule lists of the configurations: <<a2aToLegacy, legacyToA2a>>
PipelineRules ==
    { << <<>>, <<>> >>,
      << <<TransformRule(<<"sessionId">>, <<"meta", ".", "session">>, <<>>, <<>>)>>,
         <<TransformRule(<<"status">>, <<"legacyStatus">>, <<>>, <<>>)>> >>,
      << <<TransformRule(<<"sessionId">>, <<"meta", ".", "taskId">>, <<>>, <<>>)>>,
         <<>> >>,
      << <<TransformRule(<<"sessionId">>, <<"meta", ".", "mappingId">>, <<>>, <<>>)>>,
         <<>> >>,
      << <<>>,
         <<TransformRule(<<"result", ".", "name">>, <<"id">>, <<>>, <<>>)>> >>,
      << <<>>,
         <<TransformRule(<<"meta", ".", "taskId">>, <<"metadata", ".", "taskId">>,
                         <<>>, <<"{", "value", "}", "!">>)>> >>,
      << <<>>,
         <<TransformRule(<<"meta">>, <<"metadata", ".", "self">>, <<>>, <<>>)>> >> }

PipelineConfigs ==
    { Compile(ConnectorConfig(PipelineMappings, rules[1], rules[2])) :
      rules \in PipelineRules }

\* An A2A task with one text part.
Task(id, text) ==
    Members(K("id") :> id @@
            K("sessionId") :> Str(K("x1")) @@
            K("status") :> Obj(K("message") :>
                Obj(K("role") :> Str(K("user")) @@
                    K("parts") :> Arr(<< Obj(K("type") :> Str(K("text")) @@
                                             K("text") :> Str(text)) >>))) @@
            K("metadata") :> Obj(K("user") :> Obj(K("id") :> Num(7))))

\* The bodies of the inbound requests.
InboundBodies ==
    { Task(id, text) :
        id \in {Str(K("task-123")), Absent, Num(7)},
        text \in { <<"Get", " ", "customer", " ", "ID", ":", "12345">>,
                   <<"order", " ", "7">>, <<"a">> } }
    \cup { Malformed, Obj(K("id") :> Str(K("task-123"))) }

\* What the legacy system answers to the request body it received: a response
\* that echoes the request's meta, or one that does not.
LegacyAnswers(received) ==
    { Members(K("status") :> status @@ K("result") :> result @@
              K("meta") :> Field(received, "meta")) :
        status \in {Str(K("success")), Str(K("error"))},
        result \in {Absent, Obj(K("name") :> Str(K("Ann")))} }
    \cup { Malformed,
           Obj(K("error") :> Str(<<"not", " ", "found">>) @@
               K("meta") :> Obj(K("taskId") :> Str(K("task-9")))) }

Init ==
    /\ cfg \in PipelineConfigs
    /\ call = NoCall
    /\ PipelineIdle

\* Proxy.HandleRequest up to the body copy, or ServeHTTP up to the Director:
\* the outbound request is made from the inbound one.  HandleRequest reads the
\* inbound body into a buffer and returns the read error if there is one.
Intercept ==
    /\ pc = "Idle"
    /\ \E entry \in {"HandleRequest", "ServeHTTP"}, data \in InboundBodies,
          broken \in BOOLEAN :
          LET r == [Body |-> Body("inbound", data, broken),
                    ContentLength |-> Size(data),
                    Header |-> [k \in {"Content-Length"} |-> Itoa(Size(data))]]
          IN  /\ via' = entry
              /\ inbound' = r
              /\ IF entry = "ServeHTTP"
                 THEN /\ req' = r
                      /\ pc' = "RequestIntercepted"
                      /\ ret' = ret
                 ELSE IF broken
                 THEN /\ req' = [r EXCEPT !.Body = NoBody, !.ContentLength = 0]
                      /\ pc' = "Rejected"
                      /\ ret' = <<"error", "read">>
                 ELSE /\ req' = [r EXCEPT !.Body = Body("copy", data, FALSE),
                                          !.ContentLength = 0]
                      /\ pc' = "RequestIntercepted"
                      /\ ret' = ret
    /\ UNCHANGED <<cfg, resp, tq, tr, call>>

\* transform.TransformRequest(req), from HandleRequest or from the Director
RewriteRequest ==
    /\ pc = "RequestIntercepted"
    /\ \E now \in Clock :
       \E t \in {TransformRequest(cfg, req, now)} :
              /\ req' = t.req
              /\ tq' = t.tq
              /\ pc' = IF t.tq.err = "" THEN "RequestRewritten" ELSE "PassThrough"
    /\ UNCHANGED <<cfg, via, inbound, resp, tr, ret, call>>

\* client.Do(req) / the reverse proxy's round trip: the request is sent
Forward ==
    /\ pc \in {"RequestRewritten", "PassThrough"}
    /\ pc' = "Forwarded"
    /\ UNCHANGED <<cfg, via, inbound, req, resp, tq, tr, ret, call>>

\* The round trip fails: HandleRequest returns the error, the reverse proxy
\* answers through its error handler.
TransportFails ==
    /\ pc = "Forwarded"
    /\ pc' = "TransportFailed"
    /\ ret' = <<"error", "transport">>
    /\ UNCHANGED <<cfg, via, inbound, req, resp, tq, tr, call>>

\* The legacy system's response arrives.
LegacyResponds ==
    /\ pc = "Forwarded"
    /\ \E broken \in BOOLEAN :
       \E data \in LegacyAnswers(IF req.Body.drained THEN Nil ELSE req.Body.data) :
          resp' = [Body |-> Body("legacy", data, broken),
                   ContentLength |-> Size(data),
                   Header |-> [k \in {"Content-Length"} |-> Itoa(Size(data))]]
    /\ pc' = "ResponseIntercepted"
    /\ UNCHANGED <<cfg, via, inbound, req, tq, tr, ret, call>>

\* transform.TransformResponse(resp), from HandleRequest or as ModifyResponse:
\* on an error HandleRequest closes the body and returns (nil, err), and
\* ModifyResponse returns err.
RewriteResponse ==
    /\ pc = "ResponseIntercepted"
    /\ \E now \in Clock :
       \E t \in {TransformResponse(cfg, resp, now)} :
              /\ resp' = t.resp
              /\ tr' = t.tr
              /\ pc' = IF t.err # "" THEN "ResponseFailed" ELSE "ResponseRewritten"
              /\ ret' = IF t.err # "" THEN <<"error", t.err>> ELSE <<"response">>
    /\ UNCHANGED <<cfg, via, inbound, req, tq, call>>

\* The call is over; the next one starts from nothing.
Finish ==
    /\ pc \in {"ResponseRewritten", "ResponseFailed", "TransportFailed", "Rejected"}
    /\ pc' = "Idle"
    /\ via' = ""
    /\ inbound' = NoMessage
    /\ req' = NoMessage
    /\ resp' = NoMessage
    /\ tq' = NoLocals("")
    /\ tr' = NoLocals("")
    /\ ret' = <<"none">>
    /\ UNCHANGED <<cfg, call>>

Next ==
    \/ Intercept
    \/ RewriteRequest
    \/ Forward
    \/ TransportFails
    \/ LegacyResponds
    \/ RewriteResponse
    \/ Finish

Spec == Init /\ [][Next]_vars

\* The legacy response transformResponse parsed in the call.
LegacyResponse == Tree(tr.h0, Ref(tr.source), {})

\* C5 as stated: for a task whose id is a string X and that matches a mapping,
\* transformRequest produces a legacy request with meta.taskId = X, and
\* transformResponse on a legacy response that echoes that meta produces a task
\* with id = X and metadata.taskId = X.
C5_Correlation ==
    LET X == Field(inbound.Body.data, "id")
    IN  (TypeOf(X) = "str" /\ tq.mapping # 0) =>
            /\ tq.err = ""
            /\ Field(Field(tq.out, "meta"), "taskId") = X
            /\ (/\ pc \in {"ResponseRewritten", "ResponseFailed"}
                /\ tr.target # 0
                /\ Field(LegacyResponse, "meta") = Field(tq.out, "meta"))
               => /\ tr.err = ""
                  /\ Field(tr.out, "id") = X
                  /\ Field(Field(tr.out, "metadata"), "taskId") = X

\* C10: a failure on the response path fails the exchange.  The response
\* transformation ends in ResponseFailed exactly when reading the body or the
\* transform function returned an error; then TransformResponse's error is
\* what the caller gets, and the response still has the legacy system's body
\* and content length, not a transformed one.
C10_ResponseFailure ==
    /\ pc \in {"ResponseRewritten", "ResponseFailed"} =>
          (pc = "ResponseFailed") = (tr.err # "")
    /\ pc = "ResponseFailed" =>
          /\ ret = <<"error", tr.err>>
          /\ resp.Body.origin = "legacy"
          /\ resp.ContentLength = Size(resp.Body.data)
          /\ resp.Header["Content-Length"] = Itoa(Size(resp.Body.data))
    /\ pc = "ResponseRewritten" => ret = <<"response">>

\* A call whose legacy response was malformed JSON has failed.
C10_Witness ==
    /\ pc = "ResponseFailed"
    /\ resp.Body.data = Malformed
    /\ tr.err = "unmarshal"
    /\ ret = <<"error", "unmarshal">>

\* The ways the request-body transform function fails.
RequestTransformErrors == {"unmarshal", "status", "message", "parts", "nomatch"}

\* C11 as stated: when the request-body transform fails, the request that
\* TransformRequest leaves to be forwarded still carries the original body,
\* readable in full, with the content length it had.
C11_PassThroughBody ==
    (pc = "PassThrough" /\ tq.err \in RequestTransformErrors) =>
        /\ req.Body.data = inbound.Body.data
        /\ ~req.Body.drained
        /\ ~req.Body.closed
        /\ req.ContentLength =
               IF via = "HandleRequest" THEN 0 ELSE inbound.ContentLength

(***************************************************************************)
(* Startup: main loads, validates and installs the configuration           *)
(***************************************************************************)

MaxLoadMappings == 2

WithAdapter(c, adapter) == [c EXCEPT !.Adapter = adapter]

\* The adapter sections of the configuration files.
LoadAdapters ==
    { AdapterConfig(type, baseURL) :
        type \in {K("rest"), K("soap"), K("ftp"), <<>>},
        baseURL \in {K("http://legacy"), <<>>} }

GoodParameter == ParameterMapping(K("text"), <<":", "(", "\\w+", ")", "$">>, <<"id">>, <<>>)

\* The mappings of the configuration files: a complete one, ones that lack a
\* required field, and ones with a pattern or a template that does not
\* compile.
LoadMappings ==
    { MappingConfig(<<"get">>, <<"/", "m">>, K("GET"), <<GoodParameter>>, ResponseTemplate),
      MappingConfig(<<>>, <<"/", "m">>, K("GET"), <<>>, <<>>),
      MappingConfig(<<"get">>, <<>>, K("GET"), <<>>, <<>>),
      MappingConfig(<<"get">>, <<"/", "m">>, <<>>, <<>>, <<>>),
      MappingConfig(<<"(", "get">>, <<"/", "m">>, K("GET"), <<GoodParameter>>, <<>>),
      MappingConfig(<<"get">>, <<"/", "m">>, K("GET"),
                    << GoodParameter,
                       ParameterMapping(K("text"), <<"(", "\\w+">>, <<"q">>, <<>>) >>,
                    <<>>),
      MappingConfig(<<"get">>, <<"/", "m">>, K("GET"), <<GoodParameter>>,
                    <<"Customer: ", "{{", ".", "result">>) }

\* The rule lists of the configuration files: <<a2aToLegacy, legacyToA2A>>
LoadRules ==
    { << <<>>, <<>> >>,
      << <<TransformRule(<<"sessionId">>, <<"meta", ".", "session">>, <<"(", "\\w+", ")">>, <<>>)>>,
         <<TransformRule(<<"status">>, <<"legacyStatus">>, <<"(", "\\w+">>, <<>>)>> >>,
      << << TransformRule(<<"sessionId">>, <<"meta", ".", "session">>, <<"(", "\\w+", ")">>, <<>>),
            TransformRule(<<"id">>, <<"meta", ".", "id">>, <<"\\w+", ")">>, <<>>) >>,
         <<TransformRule(<<"status">>, <<"legacyStatus">>, <<"(", "\\w+", ")">>, <<>>)>> >> }

ConfigFiles ==
    { ConfigFile(TRUE, ".yaml", TRUE,
                 WithAdapter(ConnectorConfig(mappings, rules[1], rules[2]), adapter)) :
        mappings \in SeqsUpTo(LoadMappings, MaxLoadMappings),
        rules \in LoadRules, adapter \in LoadAdapters }
    \cup
    { ConfigFile(readable, ext, parses, NoConfig) :
        readable \in BOOLEAN, ext \in {".json", ".yml", ".txt"}, parses \in BOOLEAN }

\* main's flags and locals: cfg is the pointer, <<>> for nil.
MainCall(useConfig, configFile) ==
    [op |-> "main", useConfig |-> useConfig, configFile |-> configFile,
     cfg |-> <<>>, err |-> "", validated |-> FALSE, transformer |-> "none"]

InitLoad ==
    /\ cfg = NoConfig
    /\ PipelineIdle
    /\ \E useConfig \in BOOLEAN :
          \/ call = MainCall(useConfig, <<>>)
          \/ \E file \in ConfigFiles : call = MainCall(useConfig, <<file>>)

Starting == pc = "Idle" /\ call.transformer = "none"

\* main, the configuration branch up to LoadFromFile and its error check
LoadConfiguration ==
    /\ Starting /\ call.err = "" /\ call.cfg = <<>>
    /\ call.useConfig /\ call.configFile # <<>>
    /\ \E r \in {LoadFromFile(call.configFile[1])} :
          call' = [call EXCEPT !.cfg = r.config,
                               !.err = IF r.err = "" THEN "" ELSE "load: " \o r.err]
    /\ UNCHANGED <<cfg, pipeline>>

\* main, ValidateConfig and its error check
Validate ==
    /\ Starting /\ call.err = "" /\ call.cfg # <<>> /\ ~call.validated
    /\ call' = [call EXCEPT !.validated = TRUE, !.err = ValidateConfig(call.cfg[1])]
    /\ UNCHANGED <<cfg, pipeline>>

\* main, the adapter switch, Initialize and NewConfigTransformer
CreateConfigTransformer ==
    /\ Starting /\ call.err = "" /\ call.validated
    /\ call.useConfig /\ call.cfg # <<>>
    /\ \E initialized \in BOOLEAN :
          IF call.cfg[1].Adapter.Type \notin {K("rest"), K("soap"), K("db"), K("file")}
          THEN call' = [call EXCEPT !.err = "Unsupported adapter type"] /\ cfg' = cfg
          ELSE IF ~initialized
          THEN call' = [call EXCEPT !.err = "Failed to initialize adapter"] /\ cfg' = cfg
          ELSE call' = [call EXCEPT !.transformer = "config"] /\ cfg' = call.cfg[1]
    /\ UNCHANGED pipeline

\* main, the command-line branch
CreateHardcodedTransformer ==
    /\ Starting /\ call.err = ""
    /\ ~(call.useConfig /\ call.configFile # <<>>)
    /\ \E initialized \in BOOLEAN :
          call' = IF initialized THEN [call EXCEPT !.transformer = "hardcoded"]
                  ELSE [call EXCEPT !.err = "Failed to initialize adapter"]
    /\ UNCHANGED <<cfg, pipeline>>

NextLoad ==
    \/ LoadConfiguration
    \/ Validate
    \/ CreateConfigTransformer
    \/ CreateHardcodedTransformer

SpecLoad == InitLoad /\ [][NextLoad]_vars

\* log.Fatalf has ended the process.
Fatal == call.err # ""
\* The proxy is created with main's transformer.
Serving == call.transformer # "none"

\* Every pattern and template of c is compiled.
FullyCompiled(c) == ~CompileErr(c) /\ c = Compile(c)

\* C12: if any intent pattern, parameter pattern, response template or rule
\* regex of the file fails to compile, LoadFromFile returns an error and no
\* configuration (main then ends in log.Fatalf); the configuration main holds
\* and the one the transformer serves with are compiled throughout.
C12_CompileFailureFatal ==
    /\ call.cfg # <<>> => FullyCompiled(call.cfg[1])
    /\ call.transformer = "config" => FullyCompiled(cfg)
    /\ \A file \in {f \in ConfigFiles : <<f>> = call.configFile} :
          (file.readable /\ file.parses /\ file.ext # ".txt"
           /\ CompileErr(file.content)
           /\ call.useConfig /\ (call.err # "" \/ call.cfg # <<>>))
          => call.err = "load: compile" /\ call.cfg = <<>> /\ ~Serving

\* A file in which one pattern compiled before another failed has ended main.
C12_Witness ==
    /\ call.err = "load: compile" /\ call.cfg = <<>>
    /\ CompileInPlace(call.configFile[1].content).c # call.configFile[1].content

\* The configuration lacks a required field.
MissingRequired(c) ==
    \/ c.Adapter.Type = <<>>
    \/ c.Adapter.BaseURL = <<>>
    \/ Len(c.Mappings) = 0
    \/ \E i \in 1..Len(c.Mappings) :
          \/ c.Mappings[i].IntentPattern = <<>>
          \/ c.Mappings[i].Endpoint = <<>>
          \/ c.Mappings[i].Method = <<>>

C14_LegacyRequest ==
    (tq.err = "" /\ tq.target # 0 /\ cfg.Transforms.A2AToLegacy = <<>>) =>
        LET u == Unmarshal(inbound.Body.data)
            text == extractTextFromTask(u.h, 1).text
            mapping == cfg.Mappings[findMatchingMapping(cfg, text)]
            e == extractParameters(u.h, mapping, 1, text)
            id == Field(inbound.Body.data, "id")
            meta == Field(tq.out, "meta")
        IN  /\ DOMAIN ValOf(tq.out) = {K("action"), K("params"), K("meta")}
            /\ Field(tq.out, "action") = Str(mapping.Method)
            /\ Field(tq.out, "params") = Tree(e.h, Ref(e.params), {})
            /\ DOMAIN ValOf(meta) =
                   {K("taskId"), K("timestamp"), K("endpoint"), K("mappingId")}
            /\ Field(meta, "taskId") \in
                   IF TypeOf(id) = "str" THEN {id}
                   ELSE {Str(<<"task-", now>>) : now \in Clock}
            /\ Field(meta, "timestamp") \in {Str(<<now>>) : now \in Clock}
            /\ Field(meta, "endpoint") =
                   Str(renderEndpoint(mapping.Endpoint, e.h[e.params]))
            /\ Field(meta, "mappingId") = Str(mapping.IntentPattern)

\* The request for "Get customer ID:12345" has been rewritten.
C14_Witness ==
    /\ pc = "RequestRewritten" /\ cfg.Transforms.A2AToLegacy = <<>>
    /\ Field(tq.out, "action") = Str(K("GET"))
    /\ Field(Field(tq.out, "params"), "id") = Str(K("12345"))
    /\ Field(Field(tq.out, "meta"), "taskId") = Str(K("task-123"))
    /\ Field(Field(tq.out, "meta"), "endpoint") =
           Str(<<"/", "customers", "/", "12345">>)

\* C15 as stated: after TransformRequest (TransformResponse) ran with a
\* transform function that succeeded, the body is the function's output, unread,
\* ContentLength is the output's length, and the Content-Length header is the
\* decimal text of that length.
C15_BodyAndContentLength ==
    /\ pc = "RequestRewritten" =>
          /\ req.Body.data = tq.out /\ ~req.Body.drained /\ ~req.Body.closed
          /\ req.ContentLength = Size(tq.out)
          /\ req.Header["Content-Length"] = Itoa(Size(tq.out))
    /\ pc = "ResponseRewritten" =>
          /\ resp.Body.data = tr.out /\ ~resp.Body.drained /\ ~resp.Body.closed
          /\ resp.ContentLength = Size(tr.out)
          /\ resp.Header["Content-Length"] = Itoa(Size(tr.out))

(***************************************************************************)
(* Concurrent calls of transformRequest and transformResponse              *)
(***************************************************************************)

MaxCalls == 2

ConcurrentConfigs ==
    { Compile(ConnectorConfig(PipelineMappings, rules[1], rules[2])) :
      rules \in
        { << <<TransformRule(<<"sessionId">>, <<"meta", ".", "session">>, <<>>, <<>>)>>,
             <<TransformRule(<<"status">>, <<"legacyStatus">>, <<>>, <<>>)>> >>,
          << <<TransformRule(<<"sessionId">>, <<"meta", ".", "taskId">>, <<>>, <<>>),
               TransformRule(<<"id">>, <<"params", ".", "id">>, <<"(", "\\w+", ")">>, <<>>)>>,
             <<TransformRule(<<"meta">>, <<"metadata", ".", "self">>, <<>>, <<>>)>> >> } }

\* The bodies handed to the calls in flight.
ConcurrentInputs ==
    { [op |-> "transformRequest", data |-> data] :
        data \in { Task(Str(K("task-123")), <<"Get", " ", "customer", " ", "ID", ":", "12345">>),
                   Task(Absent, <<"order", " ", "7">>) } }
    \cup
    { [op |-> "transformResponse", data |-> data] :
        data \in { Members(K("status") :> Str(K("success")) @@
                           K("result") :> Obj(K("name") :> Str(K("Ann"))) @@
                           K("meta") :> Obj(K("taskId") :> Str(K("task-123")) @@
                                            K("mappingId") :> Str(<<"Get", " ", "customer">>))),
                   Obj(K("error") :> Str(<<"not", " ", "found">>) @@
                       K("meta") :> Obj(K("taskId") :> Str(K("task-9")))) } }

\* The local variables of one call: where it is, and its maps.
Locals(op, data, now) ==
    [op |-> op, data |-> data, now |-> now, at |-> "entry", i |-> 0,
     h |-> <<>>, source |-> 0, target |-> 0, err |-> "", out |-> Malformed]

\* (a variant in which every call works on the locals of the first)
SharedFrame(all, p) == all[1]

\* The locals of call p: each call has its own.
Frame(all, p) == all[p]

\* The rules a call applies.
RulesOf(c, op) ==
    IF op = "transformRequest" THEN c.Transforms.A2AToLegacy
    ELSE c.Transforms.LegacyToA2A

InitConcurrent ==
    /\ cfg \in ConcurrentConfigs
    /\ PipelineIdle
    /\ call \in [1..MaxCalls ->
                    { Locals(in.op, in.data, now) :
                        in \in ConcurrentInputs, now \in Clock }]

\* A call runs from its entry to the loop over the global rules:
\* transformRequest unmarshals, matches, extracts and assembles the request,
\* transformResponse unmarshals and assembles the task.
Assemble(p) ==
    /\ call[p].at = "entry"
    /\ \E a \in { IF call[p].op = "transformRequest"
                  THEN transformRequest(
                           [cfg EXCEPT !.Transforms.A2AToLegacy = <<>>],
                           call[p].data, call[p].now)
                  ELSE transformResponse(
                           [cfg EXCEPT !.Transforms.LegacyToA2A = <<>>],
                           call[p].data, call[p].now) } :
          call' = [call EXCEPT ![p] =
                     IF a.err # ""
                     THEN [@ EXCEPT !.at = "returned", !.err = a.err]
                     ELSE [@ EXCEPT !.at = "rules", !.i = 1, !.h = a.h0,
                                    !.source = a.source, !.target = a.target]]
    /\ UNCHANGED <<cfg, pipeline>>

\* One iteration of the loop over the global rules, on the call's maps.
ApplyRule(p) ==
    /\ call[p].at = "rules"
    /\ \E l \in {Frame(call, p)} :
          /\ l.at = "rules"
          /\ l.i <= Len(RulesOf(cfg, call[p].op))
          /\ call' = [call EXCEPT ![p] =
                        [@ EXCEPT !.i = l.i + 1,
                                  !.h = applyTransformRule(
                                            l.h, RulesOf(cfg, call[p].op)[l.i],
                                            l.source, l.target)]]
    /\ UNCHANGED <<cfg, pipeline>>

\* json.Marshal of the call's result, and the return.
Marshal(p) ==
    /\ call[p].at = "rules"
    /\ \E l \in {Frame(call, p)} :
          /\ l.at = "rules"
          /\ l.i > Len(RulesOf(cfg, call[p].op))
          /\ \E out \in {Tree(l.h, Ref(l.target), {})} :
                call' = [call EXCEPT ![p] =
                           [@ EXCEPT !.at = "returned",
                                     !.err = IF HasCycle(out) THEN "marshal" ELSE "",
                                     !.out = IF HasCycle(out) THEN Malformed ELSE out]]
    /\ UNCHANGED <<cfg, pipeline>>

NextConcurrent ==
    \E p \in 1..MaxCalls : Assemble(p) \/ ApplyRule(p) \/ Marshal(p)

SpecConcurrent == InitConcurrent /\ [][NextConcurrent]_vars

\* What the call returns when it runs alone.
Alone(c, l) ==
    IF l.op = "transformRequest" THEN transformRequest(c, l.data, l.now)
    ELSE transformResponse(c, l.data, l.now)

\* C16: for every interleaving of the calls in flight, no step of a call
\* changes the configuration, and every call that has returned returned what it
\* returns when it runs alone on the same input.
C16_ConcurrentUse ==
    /\ [][cfg' = cfg]_vars
    /\ [](\A p \in 1..MaxCalls :
             call[p].at = "returned" =>
                 /\ call[p].err = Alone(cfg, call[p]).err
                 /\ call[p].out = Alone(cfg, call[p]).out)

\* A transformRequest call and a transformResponse call have both returned a
\* result.
C16_Witness ==
    /\ \A p \in 1..MaxCalls : call[p].at = "returned" /\ call[p].err = ""
    /\ call[1].op # call[2].op
    /\ call[1].out # call[2].out

\* C17 as stated: for a text parameter mapping with a non-empty default (whose
\* target no other parameter mapping writes at, above or below), params[target]
\* is the default unless the pattern both matches the text and has a capture
\* group.
C17_TextDefault ==
    call.op = "extractParameters" =>
        LET pms == cfg.Mappings[1].ParameterMappings
        IN  \A i \in 1..Len(pms) :
                ( /\ pms[i].Source = K("text")
                  /\ pms[i].Default # <<>>
                  /\ \A j \in 1..Len(pms) :
                        j # i => ~Overlap(pms[i].Target, pms[j].Target)
                  /\ ~(/\ FindStringSubmatch(pms[i].Pattern, call.text) # <<>>
                       /\ NumSubexp(pms[i].Pattern) >= 1) ) =>
                    getValueByPath(call.h, call.params, pms[i].Target)
                        = Str(pms[i].Default)

(***************************************************************************)
(* applyTransformRule applied to bounded inputs                            *)
(***************************************************************************)

\* Rules over the source path v, with and without a regex and a template.
RuleRules ==
    { TransformRule(<<"v">>, target, regex, template) :
        target \in {<<"out">>, <<"meta", ".", "out">>},
        regex \in {<<>>, <<"(", "\\w+", ")">>, <<":", "(", "\\w+", ")">>, <<"order">>},
        template \in {<<>>, <<"{", "value", "}", "!">>, <<"id", "-", "{", "value", "}">>} }

RuleConfigs == { Compile(ConnectorConfig(<<>>, <<>>, <<rule>>)) : rule \in RuleRules }

\* What the source path resolves to.
RuleValues ==
    { Str(<<"order", ":", "A7">>), Str(<<"A7">>), Str(<<" ">>), Num(7), Nil }

InitRule ==
    /\ cfg \in RuleConfigs
    /\ call = NoCall
    /\ PipelineIdle

\* applyTransformRule(rule, source, target) with source = {"v": value} (no
\* member for nil) and an empty target map.
ApplyTransformRule ==
    /\ call = NoCall
    /\ \E value \in RuleValues :
          LET source == IF value = Nil THEN EmptyMap ELSE (K("v") :> value)
          IN  call' = [op |-> "applyTransformRule", value |-> value,
                       h |-> applyTransformRule(<<source, EmptyMap>>,
                                                cfg.Transforms.LegacyToA2A[1], 1, 2)]
    /\ UNCHANGED <<cfg, pipeline>>

NextRule == ApplyTransformRule

SpecRule == InitRule /\ [][NextRule]_vars

\* The value C18 states for a rule and a string source value: the first capture
\* group in place of the value when the regex is set and matches with a group,
\* then that value in place of {value} in the template when one is set.
RuleValue(rule, v) ==
    LET found == IF rule.Regex # <<>> THEN FindStringSubmatch(rule.Regex, v) ELSE <<>>
        captured == IF Len(found) > 1 THEN found[2] ELSE v
    IN  IF rule.Template # <<>>
        THEN ReplaceAll(rule.Template, <<"{", "value", "}">>, captured)
        ELSE captured

\* C18 as stated: for a rule whose source resolves to a string, the value
\* written at target is the template instantiated with the captured group (the
\* regex applied first, the template second).
C18_ValuePipeline ==
    (call.op = "applyTransformRule" /\ TypeOf(call.value) = "str") =>
        getValueByPath(call.h, 2, cfg.Transforms.LegacyToA2A[1].Target)
            = Str(RuleValue(cfg.Transforms.LegacyToA2A[1], ValOf(call.value)))

\* C19 as stated: when the selected mapping has a response template and
\* rendering it against the legacy response fails, transformResponse returns an
\* error and no task.
C19_RenderFailure ==
    (call.op = "transformResponse" /\ call.r.mapping # 0) =>
        LET rt == cfg.Mappings[call.r.mapping].ResponseTransform
        IN  ( /\ rt.Template # <<>> /\ rt.compiled # NilPtr
              /\ ~Execute(Unmarshal(call.data).h, rt.compiled, Ref(1)).ok )
            => call.r.err # "" /\ call.r.out = Malformed

\* The steps of a call in the order C20 states, with the end of the call.
PipelineSteps ==
    { <<"Idle", "RequestIntercepted">>,
      <<"RequestIntercepted", "RequestRewritten">>,
      <<"RequestIntercepted", "PassThrough">>,
      <<"RequestRewritten", "Forwarded">>,
      <<"PassThrough", "Forwarded">>,
      <<"Forwarded", "ResponseIntercepted">>,
      <<"Forwarded", "TransportFailed">>,
      <<"ResponseIntercepted", "ResponseRewritten">>,
      <<"ResponseIntercepted", "ResponseFailed">>,
      <<"ResponseRewritten", "Idle">>,
      <<"ResponseFailed", "Idle">>,
      <<"TransportFailed", "Idle">> }

\* C20 as stated: every call goes Idle, RequestIntercepted, then
\* RequestRewritten when the request transform succeeded and PassThrough when
\* it failed for whatever reason, then Forwarded, and after a legacy response
\* ResponseIntercepted and then ResponseRewritten or ResponseFailed; no call is
\* aborted before it is forwarded.
C20_PipelineOrder ==
    [][ pc' # pc =>
           /\ <<pc, pc'>> \in PipelineSteps
           /\ pc = "RequestIntercepted" =>
                 (pc' = "RequestRewritten") = (tq'.err = "") ]_vars

\* params[target] as C21 states it for the path parameter mapping pm: the value
\* the source path resolves to in the task, else the default, else absent.
PathParameter(pm, task) ==
    LET h == Load(<<>>, task).h
        value == getValueByPath(h, 1, pm.Source)
    IN  IF value # Nil THEN Tree(h, value, {})
        ELSE IF pm.Default # <<>> THEN Str(pm.Default) ELSE Nil

\* C21 as stated: for each parameter mapping whose source is a dot-path,
\* params[target] is the value at the path when there is one, else the default
\* when one is declared, else absent.
C21_PathParameters ==
    call.op = "extractParameters" =>
        \A i \in 1..Len(cfg.Mappings[1].ParameterMappings) :
            LET pm == cfg.Mappings[1].ParameterMappings[i]
            IN  pm.Source # K("text") =>
                    Tree(call.h, getValueByPath(call.h, call.params, pm.Target), {})
                        = PathParameter(pm, call.task)

\* C21 as amended: the same for each such parameter mapping whose target no
\* other parameter mapping of the list writes at, above or below.
C21_PathParametersDisjoint ==
    call.op = "extractParameters" =>
        LET pms == cfg.Mappings[1].ParameterMappings
        IN  \A i \in 1..Len(pms) :
                ( /\ pms[i].Source # K("text")
                  /\ \A j \in 1..Len(pms) :
                        j # i => ~Overlap(pms[i].Target, pms[j].Target) ) =>
                    Tree(call.h, getValueByPath(call.h, call.params, pms[i].Target), {})
                        = PathParameter(pms[i], call.task)

\* A path parameter mapping with a default ran on a task without the path, next
\* to a mapping with another target, and the default is in params.
C21_Witness ==
    /\ call.op = "extractParameters"
    /\ Len(cfg.Mappings[1].ParameterMappings) = 2
    /\ LET pms == cfg.Mappings[1].ParameterMappings
       IN  /\ pms[2].Source # K("text")
           /\ pms[2].Default # <<>>
           /\ ~Overlap(pms[1].Target, pms[2].Target)
           /\ Field(call.task, "metadata") = Nil
           /\ getValueByPath(call.h, call.params, pms[2].Target) = Str(pms[2].Default)

\* C22 as stated: after setValue(root, path, value) every proper prefix of
\* path resolves through getValueByPath to a container.
C22_CreateOnWrite ==
    call.op = "setValue" =>
        LET parts == Split(call.path)
        IN  \A k \in 1..(Len(parts) - 1) :
                TypeOf(getValueLoop(call.h, call.h[1], SubSeq(parts, 1, k), 1)) = "map"

\* What C23 states for the segments parts[i..] below the value v: the value
\* itself when no segment is left, the member named by the next segment when v
\* is a container (a map, or a map[string]string read as one), and absent when
\* v is anything else.
RECURSIVE ValueAt(_, _, _, _)
ValueAt(h, v, parts, i) ==
    IF i > Len(parts) THEN v
    ELSE CASE TypeOf(v) = "map" ->
                ValueAt(h, Lookup(h[ValOf(v)], parts[i]), parts, i + 1)
           [] TypeOf(v) = "smap" ->
                ValueAt(h, Lookup(Converted(h[ValOf(v)]), parts[i]), parts, i + 1)
           [] OTHER -> Nil

\* C23: getValueByPath returns the value stored at the final segment when every
\* intermediate segment names a container, and the absent marker when one is
\* missing or holds a non-container value.
C23_GetValueByPath ==
    call.op = "getValueByPath" =>
        call.result = ValueAt(call.h, Ref(1), Split(call.path), 1)

\* A value was read through a map[string]string.
C23_Witness ==
    /\ call.op = "getValueByPath"
    /\ call.path = <<"s", ".", "k">>
    /\ TypeOf(Lookup(call.h[1], <<"s">>)) = "smap"
    /\ call.result = Str(K("b"))

\* C24: with no response-direction rules, the task's id is
\* legacyResponse.meta.taskId when that is a string and "unknown-task"
\* otherwise, and the task's metadata is legacyResponse.meta when meta is an
\* object and is absent otherwise.
C24_IdentityAndMetadata ==
    ( /\ call.op = "transformResponse"
      /\ cfg.Transforms.LegacyToA2A = <<>>
      /\ TypeOf(call.data) = "obj" ) =>
        LET meta == Field(call.data, "meta")
            id == Field(meta, "taskId")
        IN  /\ call.r.err = ""
            /\ Field(call.r.out, "id") =
                   IF TypeOf(id) = "str" THEN id ELSE Str(K("unknown-task"))
            /\ IF TypeOf(meta) = "obj"
               THEN /\ K("metadata") \in DOMAIN ValOf(call.r.out)
                    /\ Field(call.r.out, "metadata") = meta
               ELSE K("metadata") \notin DOMAIN ValOf(call.r.out)

\* A task with the echoed id and metadata was returned under a configuration
\* without response rules.
C24_Witness ==
    /\ call.op = "transformResponse"
    /\ cfg.Transforms.LegacyToA2A = <<>>
    /\ call.r.err = ""
    /\ Field(call.r.out, "id") = Str(K("task-9"))
    /\ Field(Field(call.r.out, "metadata"), "mappingId") = Str(K("get"))

\* C25 as stated: transformResponse uses the ResponseTransform of the first
\* mapping whose intentPattern equals legacyResponse.meta.mappingId, and none
\* (the call still succeeding, absent rules) when no mapping has it; and for a
\* request matched to mapping M whose meta the legacy response echoes, the
\* mapping selected is M.
C25_TransformSelection ==
    tr.target # 0 =>
        LET mappingId == Field(Field(LegacyResponse, "meta"), "mappingId")
            equal == {i \in 1..Len(cfg.Mappings) :
                         Str(cfg.Mappings[i].IntentPattern) = mappingId}
        IN  /\ tr.mapping = IF equal = {} THEN 0
                            ELSE CHOOSE i \in equal : \A j \in equal : i <= j
            /\ (tr.mapping = 0 /\ cfg.Transforms.LegacyToA2A = <<>>) => tr.err = ""
            /\ ( /\ tq.err = "" /\ tq.mapping # 0
                 /\ Field(LegacyResponse, "meta") = Field(tq.out, "meta") )
               => tr.mapping = tq.mapping

(***************************************************************************)
(* extractTextFromTask applied to bounded tasks                            *)
(***************************************************************************)

MaxParts == 3

\* The elements of a message's parts array.
TextPart(text) == Obj(K("type") :> Str(K("text")) @@ K("text") :> Str(text))
TaskParts ==
    { TextPart(K("a")), TextPart(K("b")), TextPart(<<>>),
      Obj(K("type") :> Str(K("data")) @@ K("text") :> Str(K("c"))),
      Obj(K("type") :> Str(K("text")) @@ K("text") :> Num(7)),
      Obj(K("text") :> Str(K("c"))),
      Str(K("c")) }

\* Tasks: every parts array up to MaxParts, and the shapes without one.
TaskWithParts(parts) ==
    Obj(K("id") :> Str(K("task-123"))
        @@ K("status") :> Obj(K("message") :> Obj(K("parts") :> parts)))
TextTasks ==
    { TaskWithParts(Arr(parts)) : parts \in SeqsUpTo(TaskParts, MaxParts) }
    \cup { TaskWithParts(Str(K("a"))), TaskWithParts(TextPart(K("a"))),
           TaskWithParts(Nil),
           Obj(K("id") :> Str(K("task-123"))),
           Obj(K("status") :> Str(K("working"))),
           Obj(K("status") :> Arr(<<TextPart(K("a"))>>)),
           Obj(K("status") :> Obj(K("state") :> Str(K("working")))),
           Obj(K("status") :> Obj(K("message") :> Str(K("a")))),
           Obj(K("status") :> Obj(K("message") :> Arr(<<TextPart(K("a"))>>))),
           Obj(K("status") :> Obj(K("message") :> Obj(K("role") :> Str(K("user"))))) }

InitText ==
    /\ cfg = NoConfig
    /\ call = NoCall
    /\ PipelineIdle

ExtractTextFromTask ==
    /\ \E task \in TextTasks :
          LET t == extractTextFromTask(Load(<<>>, task).h, 1)
          IN  call' = [op |-> "extractTextFromTask", task |-> task,
                       err |-> t.err, text |-> t.text]
    /\ UNCHANGED <<cfg, pipeline>>

NextText == ExtractTextFromTask

SpecText == InitText /\ [][NextText]_vars

\* The texts of the parts of type "text", in their order.
IsTextPart(part) ==
    Field(part, "type") = Str(K("text")) /\ TypeOf(Field(part, "text")) = "str"
RECURSIVE TextsOf(_, _)
TextsOf(parts, i) ==
    IF i > Len(parts) THEN <<>>
    ELSE (IF IsTextPart(parts[i]) THEN <<ValOf(Field(parts[i], "text"))>> ELSE <<>>)
         \o TextsOf(parts, i + 1)

\* The texts with one space between each two consecutive ones.
RECURSIVE SpaceJoined(_, _)
SpaceJoined(texts, i) ==
    IF i > Len(texts) THEN <<>>
    ELSE (IF i > 1 THEN <<" ">> ELSE <<>>) \o texts[i] \o SpaceJoined(texts, i + 1)

\* C26 as stated: for a task whose status.message.parts is an array,
\* extractTextFromTask returns the texts of the parts of type "text" in their
\* order with exactly one space between consecutive ones; when status, message
\* or parts is missing or of the wrong shape it returns an error.
C26_ExtractText ==
    call.op = "extractTextFromTask" =>
        LET status == Field(call.task, "status")
            message == Field(status, "message")
            parts == Field(message, "parts")
        IN  IF TypeOf(status) = "obj" /\ TypeOf(message) = "obj" /\ TypeOf(parts) = "arr"
            THEN /\ call.err = ""
                 /\ call.text = SpaceJoined(TextsOf(ValOf(parts), 1), 1)
            ELSE call.err # ""

\* The assembled fields C27 names, of a legacy request and of a task.
RequestCore(tree) ==
    <<Field(tree, "action"), Field(Field(tree, "meta"), "taskId"),
      Field(Field(tree, "meta"), "mappingId")>>
TaskCore(tree) ==
    <<Field(tree, "id"), Field(Field(tree, "status"), "state"),
      Field(Field(Field(tree, "status"), "message"), "parts")>>

\* C27 as stated: the global rules only add fields.  After the request rules
\* the legacy request's action, meta.taskId and meta.mappingId are the values
\* assembled from the matched mapping and the task, and after the response
\* rules the task's id, status.state and status.message.parts are the values
\* computed during assembly.
C27_RulesOnlyAdd ==
    /\ tq.target # 0 =>
          RequestCore(Tree(tq.h, Ref(tq.target), {}))
              = RequestCore(Tree(tq.h0, Ref(tq.target), {}))
    /\ tr.target # 0 =>
          TaskCore(Tree(tr.h, Ref(tr.target), {}))
              = TaskCore(Tree(tr.h0, Ref(tr.target), {}))

\* The tokens {name} of an endpoint, by the position of their opening brace.
TokenStarts(s) == {i \in 1..Len(s) : s[i] = "{" /\ CloseAt(s, i + 1) > i + 1}

\* C28 as stated: endpoint rendering is a single pass over the template.  A
\* value inserted for a token is never itself scanned for tokens: the result is
\* the simultaneous substitution of all tokens of the original template, so a
\* value of a that contains the text {b} stands literally where {a} stood.
C28_SinglePass ==
    (call.op = "renderEndpoint" /\ TokenStarts(cfg.Mappings[1].Endpoint) # {}) =>
        LET endpoint == cfg.Mappings[1].Endpoint
            first == CHOOSE i \in TokenStarts(endpoint) :
                         \A j \in TokenStarts(endpoint) : i <= j
            e == CloseAt(endpoint, first + 1)
            value == Lookup(call.params, Slice(endpoint, first + 1, e))
            before == Slice(endpoint, 1, first)
        IN  /\ call.result = Substituted(endpoint, 1, call.params)
            /\ Resolvable(value) =>
                  /\ Len(call.result) >= Len(before) + Len(TextualForm(value))
                  /\ SubSeq(call.result, 1, Len(before) + Len(TextualForm(value)))
                         = before \o TextualForm(value)

\* The entries of a root: every sequence of keys up to the depth of the paths.
ProbeKeys == {K("a"), K("b"), K("c"), K("s"), K("k"), K("n"), <<>>}
Probes == UNION {[1..k -> ProbeKeys] : k \in 1..3}

\* What an entry holds, as the tree that would be marshalled.
Holds(h, q) == Tree(h, ValueAt(h, Ref(1), q, 1), {})

\* C29 as stated: setValue's frame.  Every entry that is not on the path (it
\* is neither a prefix of the path nor below its last segment) holds the same
\* value after setValue(root, path, value) as before: the other keys of the
\* root and the sibling keys inside each container on the path are kept, and
\* nothing is lost except at a segment that held a non-container value.
C29_SetValueFrame ==
    call.op = "setValue" =>
        \A q \in Probes :
            (~IsPrefix(q, Split(call.path)) /\ ~IsPrefix(Split(call.path), q)) =>
                Holds(call.h, q) = Holds(call.before, q)

(***************************************************************************)
(* Variables: processEnvironmentVariables and ResolveVariables, as          *)
(* LoadFromFile runs them on the parsed file                               *)
(***************************************************************************)

MaxVars == 2

\* Variable names, and the placeholder ${NAME} of one.
HOST == <<"A2A_", "HOST">>
TOKEN == <<"A2A_", "TOKEN">>
ENV == <<"CONNECTOR_", "ENV">>
Placeholder(k) == <<"${">> \o k \o <<"}">>

VarNames == {HOST, TOKEN, ENV}
VarValues == {K("x"), <<>>, Placeholder(TOKEN), Placeholder(HOST)}

\* The variables sections of the configuration files: at most MaxVars entries.
VariableMaps ==
    UNION {[D -> VarValues] : D \in {S \in SUBSET VarNames : Cardinality(S) <= MaxVars}}

\* os.Environ(): name=value pairs.
Environments ==
    { <<>>,
      << <<K("PATH"), K("/bin")>>, <<ENV, Placeholder(HOST)>>, <<HOST, K("h")>> >> }

\* The configuration strings that are resolved.
BaseURLs ==
    { <<"http://">> \o Placeholder(HOST), Placeholder(HOST) \o Placeholder(TOKEN),
      <<"http://legacy">>, Placeholder(ENV) }
Tokens == { Placeholder(TOKEN), K("secret") }
HeaderValues == { Placeholder(ENV) \o K("-") \o Placeholder(HOST), K("json") }

\* processEnvironmentVariables: the variables with the A2A_ and CONNECTOR_
\* entries of the environment added over them.
RECURSIVE processEnvironmentVariables(_, _, _)
processEnvironmentVariables(Variables, environ, i) ==
    IF i > Len(environ) THEN Variables
    ELSE LET parts == environ[i]
         IN  IF HasPrefixAt(parts[1], 1, K("A2A_")) \/ HasPrefixAt(parts[1], 1, K("CONNECTOR_"))
             THEN processEnvironmentVariables(
                      (parts[1] :> parts[2]) @@ Variables, environ, i + 1)
             ELSE processEnvironmentVariables(Variables, environ, i + 1)

\* The orders in which a range over the map can visit its keys.
Orders(m) ==
    {o \in [1..Cardinality(DOMAIN m) -> DOMAIN m] :
        \A i, j \in DOMAIN o : o[i] = o[j] => i = j}

\* resolveVariablesInString, the range visiting the keys in the given order.
RECURSIVE resolveVariablesLoop(_, _, _, _)
resolveVariablesLoop(result, variables, order, i) ==
    IF i > Len(order) THEN result
    ELSE resolveVariablesLoop(
             ReplaceAll(result, Placeholder(order[i]), variables[order[i]]),
             variables, order, i + 1)

resolveVariablesInString(s, variables, order) == resolveVariablesLoop(s, variables, order, 1)

\* ResolveVariables; every range over c.Variables has an order of its own
\* (strings without a placeholder are the same under each).
ResolveVariables(Adapter, Variables, oURL, oAuth, oHeaders) ==
    [BaseURL |-> resolveVariablesInString(Adapter.BaseURL, Variables, oURL),
     Auth |-> [Username |-> resolveVariablesInString(Adapter.Auth.Username, Variables, oAuth),
               Password |-> resolveVariablesInString(Adapter.Auth.Password, Variables, oAuth),
               Token |-> resolveVariablesInString(Adapter.Auth.Token, Variables, oAuth)],
     Headers |-> [key \in DOMAIN Adapter.Headers |->
                     resolveVariablesInString(Adapter.Headers[key], Variables, oHeaders)]]

InitVars ==
    /\ cfg = NoConfig
    /\ call \in {[op |-> "file", Variables |-> variables,
                  Adapter |-> [BaseURL |-> baseURL,
                               Auth |-> [Username |-> K("admin"), Password |-> <<>>,
                                         Token |-> token],
                               Headers |-> (K("Accept") :> header)]] :
                 variables \in VariableMaps, baseURL \in BaseURLs,
                 token \in Tokens, header \in HeaderValues}
    /\ PipelineIdle

\* LoadFromFile from processEnvironmentVariables to ResolveVariables.
LoadVariables ==
    /\ call.op = "file"
    /\ \E environ \in Environments :
          \E Variables \in {processEnvironmentVariables(call.Variables, environ, 1)} :
             \E oURL \in Orders(Variables), oAuth \in Orders(Variables),
                oHeaders \in Orders(Variables) :
                call' = [op |-> "LoadFromFile", file |-> call.Adapter,
                         Variables |-> Variables,
                         Adapter |-> ResolveVariables(call.Adapter, Variables,
                                                      oURL, oAuth, oHeaders)]
    /\ UNCHANGED <<cfg, pipeline>>

NextVars == LoadVariables

SpecVars == InitVars /\ [][NextVars]_vars

\* C30 as stated: variable resolution is deterministic.  The resolved adapter
\* settings and headers of a load are the ones every order of visiting the
\* variables gives, also when a variable's value contains a placeholder, so two
\* loads of the same configuration in the same environment agree.
C30_Deterministic ==
    call.op = "LoadFromFile" =>
        \A oURL \in Orders(call.Variables), oAuth \in Orders(call.Variables),
           oHeaders \in Orders(call.Variables) :
            ResolveVariables(call.file, call.Variables, oURL, oAuth, oHeaders)
                = call.Adapter

====
